---- MODULE Spec2Model ----
(***************************************************************************)
(* A model of ChamplainView (champlain-view.c): the tile grid of the       *)
(* current zoom level, the anchor that re-bases pixel coordinates, the     *)
(* scroll handler, center_on, zoom changes and the go-to animation.        *)
(*                                                                         *)
(* Pixels are integers.  Latitudes and longitudes are integers in units    *)
(* of 1/UnitsPerDegree degree, so that the inverse projection of every     *)
(* pixel is exact and the forward projection truncates, as the gint        *)
(* results of champlain_map_source_get_x/get_y do.  Viewport widths and    *)
(* heights are even, so that width / 2.0 is a whole pixel.                 *)
(***************************************************************************)
EXTENDS Integers, FiniteSets, Sequences, TLC

(***************************************************************************)
(* Program constants                                                       *)
(***************************************************************************)
G_MAXINT16 == 32767
AnchorZoomLevel == 8

(***************************************************************************)
(* The map source (champlain-map-source.c): tile size, zoom range, grid    *)
(* and projection.                                                         *)
(***************************************************************************)
TileSize == 2 ^ 8
UnitsPerDegree == 2 ^ 15

champlain_map_source_get_tile_size == TileSize
\* the map sources a view is given: the one it is created with, and one
\* with a narrower range of zoom levels
DefaultSource == "default"
NarrowSource == "narrow"
MapSources == {DefaultSource, NarrowSource}
champlain_map_source_get_min_zoom_level(source) ==
  IF source = DefaultSource THEN 0 ELSE 1
champlain_map_source_get_max_zoom_level(source) ==
  IF source = DefaultSource THEN 9 ELSE 7

\* columns and rows of the source's tile grid at a zoom level
champlain_map_source_get_column_count(zoom) == 2 ^ zoom
champlain_map_source_get_row_count(zoom) == 2 ^ zoom

\* columns and rows of a level's grid
champlain_zoom_level_get_width(level) == level.columns
champlain_zoom_level_get_height(level) == level.rows

\* units of longitude (latitude) covered by one pixel at a zoom level
LonPerPixel(zoom) == (360 * UnitsPerDegree) \div (TileSize * 2 ^ zoom)
LatPerPixel(zoom) == (180 * UnitsPerDegree) \div (TileSize * 2 ^ zoom)

champlain_map_source_get_x(zoom, longitude) ==
  (longitude + 180 * UnitsPerDegree) \div LonPerPixel(zoom)
champlain_map_source_get_y(zoom, latitude) ==
  (90 * UnitsPerDegree - latitude) \div LatPerPixel(zoom)
champlain_map_source_get_longitude(zoom, x) ==
  x * LonPerPixel(zoom) - 180 * UnitsPerDegree
champlain_map_source_get_latitude(zoom, y) ==
  90 * UnitsPerDegree - y * LatPerPixel(zoom)

(***************************************************************************)
(* Bounds of the model, and the inputs the host draws from.                *)
(***************************************************************************)
MaxScrolls == 1
MaxFetchEnds == 1
MaxGoTos == 2
MaxZooms == 1

Deg(d) == d * UnitsPerDegree
\* <<latitude, longitude>>: near the top left corner of the map, and far to
\* the east on the equator
CenterInputs == {<<Deg(80), Deg(-170)>>, <<Deg(0), Deg(170)>>}
ZoomInputs == {2, 8, 10}
SizeInputs == {<<256, 256>>}
\* origins the host scrolls to, one axis at a time
OriginInputsX == {0, 32700}
OriginInputsY == {32700}
DurationInputs == {0, 2}
\* screen points <<x, y>> of scroll events: the corner, the middle and
\* another point of the viewport
PointInputs == {<<0, 0>>, <<128, 128>>, <<200, 36>>}
\* boxes <<lat1, lon1, lat2, lon2>> to make visible: one 85 degrees wide,
\* with its corners in either order, and one 300 degrees wide
BoxInputs ==
  {<<Deg(0), Deg(-40), Deg(10), Deg(45)>>,
   <<Deg(10), Deg(45), Deg(0), Deg(-40)>>,
   <<Deg(-30), Deg(-150), Deg(30), Deg(150)>>}
MinZoomInputs == {1}
MaxZoomInputs == {0, 1, 12}
\* <<columns, rows>> of a level's grid: the usual square grids of levels 8
\* and 7, a grid wider than high, and a grid smaller than half the bound
GridInputs == {<<256, 256>>, <<128, 128>>, <<256, 128>>, <<32, 32>>}
AnchorZoomInputs == {7, 8, 9}
AnchorSizeInputs == {256, 1024}
\* <<latitude, longitude>> that are not on the map: too far north, and too
\* far east
OffMapInputs == {<<Deg(100), Deg(0)>>, <<Deg(0), Deg(200)>>}

Min(a, b) == IF a < b THEN a ELSE b
Max(a, b) == IF a > b THEN a ELSE b
CeilDiv(a, b) == (a + b - 1) \div b

\* Op applied to the value of v
Let(v, Op(_)) == CHOOSE r \in {Op(q) : q \in {v}} : TRUE

\* the statements Op run on the state v, unless a crash has ended the handler
Run(v, Op(_)) == Let(v, LAMBDA q : IF q.crashed THEN q ELSE Op(q))

VARIABLES priv, last, used
vars == <<priv, last, used>>

(***************************************************************************)
(* The state after champlain_view_init.                                    *)
(***************************************************************************)
NoLevel == [level |-> -1, columns |-> 0, rows |-> 0, tiles |-> {}]

InitPriv ==
  [zoom_level |-> 0,
   map_source |-> DefaultSource,
   min_zoom_level |-> champlain_map_source_get_min_zoom_level(DefaultSource),
   max_zoom_level |-> champlain_map_source_get_max_zoom_level(DefaultSource),
   longitude |-> 0,
   latitude |-> 0,
   anchor |-> [x |-> 0, y |-> 0],
   anchor_zoom_level |-> 0,
   map |-> FALSE,
   current_level |-> NoLevel,
   origin |-> [x |-> 0, y |-> 0],
   viewport_size |-> [x |-> 0, y |-> 0, width |-> 0, height |-> 0],
   keep_center_on_resize |-> TRUE,
   state |-> "DONE",
   goto_context |-> 0,
   \* the ClutterTimelines that are playing, each with the GoToContext its
   \* handlers were connected with
   timelines |-> {},
   crashed |-> FALSE,
   \* the tiles that left the level while their fetch was in flight, kept
   \* when the fetches of such tiles are followed to their end
   follow_stale |-> FALSE,
   stale |-> {},
   \* champlain_view_dispose has run
   disposed |-> FALSE,
   \* what the running handler has done so far (reset when a handler starts)
   did_fetch |-> FALSE,
   n_fetch |-> 0,
   \* a pass evicted a tile and left its actor in the group of the level
   did_orphan |-> FALSE,
   \* the passes of view_load_visible_tiles the handler has run, how many
   \* of them are running now, and the most that ran at once
   n_pass |-> 0,
   pass_depth |-> 0,
   max_pass_depth |-> 0,
   did_evict |-> FALSE,
   did_pass |-> FALSE,
   did_center_on |-> FALSE,
   n_notify_state |-> 0,
   n_notify_zoom_level |-> 0,
   n_animation_completed |-> 0,
   \* priv->goto_context when animation-completed was last emitted
   context_at_notify |-> 0]

Begin(p) ==
  [p EXCEPT !.did_fetch = FALSE, !.n_fetch = 0, !.n_pass = 0,
            !.max_pass_depth = 0, !.did_orphan = FALSE,
            !.did_evict = FALSE, !.did_pass = FALSE,
            !.did_center_on = FALSE, !.n_notify_state = 0,
            !.n_notify_zoom_level = 0, !.n_animation_completed = 0,
            !.context_at_notify = 0]

(***************************************************************************)
(* Tiles.  A tile of the current level is a record: grid position, load    *)
(* state and the position of its actor.                                    *)
(***************************************************************************)
Tile(x, y, zoom_level, state, px, py) ==
  [x |-> x, y |-> y, zoom_level |-> zoom_level, state |-> state,
   px |-> px, py |-> py]

\* the tiles among `gone`, which leave the level, whose fetch is in flight:
\* the map source holds them until the fetch ends.  One such fetch is followed
\* at a time.
Stale(p, gone) ==
  LET loading == {u \in gone : u.state = "LOADING"}
  IN IF p.follow_stale /\ p.stale = {} /\ loading # {}
     THEN {[x |-> t.x, y |-> t.y, zoom_level |-> t.zoom_level,
            state |-> t.state, px |-> 0, py |-> 0, evicted |-> TRUE] :
             t \in {CHOOSE u \in loading : TRUE}}
     ELSE {}

RECURSIVE view_load_visible_tiles(_)

\* view_update_state whose notification starts a pass of
\* view_load_visible_tiles at once
view_update_state_Reconciles(p) ==
  IF ~p.map THEN [p EXCEPT !.crashed = TRUE]
  ELSE
    LET new_state ==
          IF \E t \in p.current_level.tiles : t.state = "LOADING"
          THEN "LOADING" ELSE "DONE"
    IN IF p.state # new_state
       THEN view_load_visible_tiles(
              [p EXCEPT !.state = new_state,
                        !.n_notify_state = p.n_notify_state + 1])
       ELSE p

\* view_update_state: LOADING if a tile of the current level is loading
\* view_update_state notifying the host whenever it has computed the state
view_update_state_AlwaysNotifies(p) ==
  IF ~p.map THEN [p EXCEPT !.crashed = TRUE]
  ELSE [p EXCEPT !.state = IF \E t \in p.current_level.tiles :
                                t.state = "LOADING"
                           THEN "LOADING" ELSE "DONE",
                 !.n_notify_state = p.n_notify_state + 1]

view_update_state(p) ==
  IF ~p.map THEN [p EXCEPT !.crashed = TRUE]
  ELSE
    LET new_state ==
          IF \E t \in p.current_level.tiles : t.state = "LOADING"
          THEN "LOADING" ELSE "DONE"
    IN IF p.state # new_state
       THEN [p EXCEPT !.state = new_state,
                      !.n_notify_state = p.n_notify_state + 1]
       ELSE p

\* view_position_tile: the actor goes to the tile's pixel minus the anchor
view_position_tile(p, t) ==
  [t EXCEPT !.px = t.x * champlain_map_source_get_tile_size - p.anchor.x,
            !.py = t.y * champlain_map_source_get_tile_size - p.anchor.y]

\* view_tiles_reposition: every DONE tile is positioned again
view_tiles_reposition(p) ==
  IF ~p.map THEN [p EXCEPT !.crashed = TRUE]
  ELSE [p EXCEPT !.current_level.tiles =
          {IF t.state = "DONE" THEN view_position_tile(p, t) ELSE t :
             t \in p.current_level.tiles}]

\* champlain_map_source_fill_tile: the tile becomes LOADING and its fetch is
\* in flight; the state change runs tile_state_notify (position the tile)
champlain_map_source_fill_tile(p, x, y) ==
  view_position_tile(p, Tile(x, y, p.current_level.level, "LOADING", 0, 0))

\* TilesAcross without the tile added for the partially visible trailing
\* column
TilesAcrossNoTrailing(extent, size) == CeilDiv(extent, size)

\* the tiles needed across an extent of the viewport: ceil (extent / size) + 1
TilesAcross(extent, size) == CeilDiv(extent, size) + 1

\* OutOfRange that only looks at the leading edges of the range
OutOfRangeLeadingOnly(t, r) ==
  t.x < r.x_first \/ t.y < r.y_first

\* the test of the eviction loop: the tile is out of the range r
OutOfRange(t, r) ==
  t.x < r.x_first \/ t.x > r.x_count \/ t.y < r.y_first \/ t.y > r.y_count

\* exist that only counts the tiles that are DONE
existOnlyDone(tiles, i, j) ==
  \E t \in tiles : t.x = i /\ t.y = j /\ t.state = "DONE"

\* exist that only counts the tiles whose fetch has ended, as if a tile were
\* recorded in the level when its fetch completes
existOnlyFetched(tiles, i, j) ==
  \E t \in tiles : t.x = i /\ t.y = j /\ t.state # "LOADING"

\* the test of the loading loop: the level holds a tile at column i, row j
exist(tiles, i, j) ==
  \E t \in tiles : t.x = i /\ t.y = j

\* VisibleRange that is not cut at the last column and row of the grid
VisibleRangeBeyondGrid(p) ==
  LET size == champlain_map_source_get_tile_size
      x_first == Max(p.viewport_size.x + p.anchor.x, 0) \div size
      y_first == Max(p.viewport_size.y + p.anchor.y, 0) \div size
  IN [x_first |-> x_first,
      y_first |-> y_first,
      x_count |-> TilesAcross(p.viewport_size.width, size) + x_first,
      y_count |-> TilesAcross(p.viewport_size.height, size) + y_first]

\* The range of grid columns and rows view_load_visible_tiles works on.
VisibleRange(p) ==
  LET size == champlain_map_source_get_tile_size
      vx == Max(p.viewport_size.x + p.anchor.x, 0)
      vy == Max(p.viewport_size.y + p.anchor.y, 0)
      x_first == vx \div size
      y_first == vy \div size
  IN [x_first |-> x_first,
      y_first |-> y_first,
      x_count |-> Min(TilesAcross(p.viewport_size.width, size) + x_first,
                      champlain_zoom_level_get_width(p.current_level)),
      y_count |-> Min(TilesAcross(p.viewport_size.height, size) + y_first,
                      champlain_zoom_level_get_height(p.current_level))]

\* the eviction loop takes the actor of an evicted tile out of the group of
\* the level, where the loading loop put it, when the tile is DONE
RemovesActor(t) == t.state = "DONE"

\* view_load_visible_tiles: evict the tiles out of the range, load the missing
\* ones, then update the view's state
view_load_visible_tiles(p) ==
  IF ~p.map THEN [p EXCEPT !.crashed = TRUE]
  ELSE
    Let(VisibleRange(p), LAMBDA r :
    Let({t \in p.current_level.tiles : ~OutOfRange(t, r)}, LAMBDA kept :
    Let({c \in (r.x_first .. (r.x_count - 1)) \X
               (r.y_first .. (r.y_count - 1)) :
           ~exist(kept, c[1], c[2])}, LAMBDA missing :
    Let([p EXCEPT
           !.current_level.tiles =
              kept \cup {champlain_map_source_fill_tile(p, c[1], c[2]) :
                           c \in missing},
           !.stale = p.stale \cup Stale(p, p.current_level.tiles \ kept),
           !.did_evict = p.did_evict \/ p.current_level.tiles # kept,
           !.did_orphan = p.did_orphan \/
                          \E t \in p.current_level.tiles \ kept :
                            ~RemovesActor(t),
           !.did_fetch = p.did_fetch \/ missing # {},
           !.n_fetch = p.n_fetch + Cardinality(missing),
           !.did_pass = TRUE,
           !.n_pass = p.n_pass + 1,
           !.pass_depth = p.pass_depth + 1,
           !.max_pass_depth = Max(p.max_pass_depth, p.pass_depth + 1)],
        LAMBDA p1 :
    Let(view_update_state(p1), LAMBDA p2 :
      [p2 EXCEPT !.pass_depth = p2.pass_depth - 1])))))

\* view_update_anchor, for the pixel (x, y) at the centre of the viewport
\* view_update_anchor without the reset below the threshold
view_update_anchor_NoReset(p, x, y) ==
  IF p.zoom_level >= AnchorZoomLevel /\ p.map
  THEN [p EXCEPT !.anchor = [x |-> Min(Max(x - G_MAXINT16 \div 2, 0),
                                       champlain_zoom_level_get_width(
                                         p.current_level) *
                                       champlain_map_source_get_tile_size -
                                       (G_MAXINT16 \div 2)),
                            y |-> Min(Max(y - G_MAXINT16 \div 2, 0),
                                       champlain_zoom_level_get_width(
                                         p.current_level) *
                                       champlain_map_source_get_tile_size -
                                       (G_MAXINT16 \div 2))],
                 !.anchor_zoom_level = p.zoom_level]
  ELSE p

\* view_update_anchor recomputing at every call
view_update_anchor_Always(p, x, y) ==
  view_update_anchor_NoReset(
    IF p.zoom_level >= AnchorZoomLevel THEN p
    ELSE [p EXCEPT !.anchor = [x |-> 0, y |-> 0],
                   !.anchor_zoom_level = p.zoom_level], x, y)

view_update_anchor(p, x, y) ==
  LET need_anchor == p.zoom_level >= AnchorZoomLevel
      need_update ==
        \/ p.anchor_zoom_level # p.zoom_level
        \/ x - p.anchor.x + p.viewport_size.width >= G_MAXINT16
        \/ y - p.anchor.y + p.viewport_size.height >= G_MAXINT16
      max == champlain_zoom_level_get_width(p.current_level) *
               champlain_map_source_get_tile_size - (G_MAXINT16 \div 2)
      ax == Min(Max(x - G_MAXINT16 \div 2, 0), max)
      ay == Min(Max(y - G_MAXINT16 \div 2, 0), max)
  IN IF need_anchor /\ need_update
     THEN IF ~p.map THEN [p EXCEPT !.crashed = TRUE]
          ELSE [p EXCEPT !.anchor = [x |-> ax, y |-> ay],
                         !.anchor_zoom_level = p.zoom_level]
     ELSE IF ~need_anchor
     THEN [p EXCEPT !.anchor = [x |-> 0, y |-> 0],
                    !.anchor_zoom_level = p.zoom_level]
     ELSE p

viewport_get_current_longitude(p) ==
  IF ~p.map THEN 0
  ELSE champlain_map_source_get_longitude(p.zoom_level,
         p.anchor.x + p.viewport_size.x + p.viewport_size.width \div 2)

viewport_get_current_latitude(p) ==
  IF ~p.map THEN 0
  ELSE champlain_map_source_get_latitude(p.zoom_level,
         p.anchor.y + p.viewport_size.y + p.viewport_size.height \div 2)

RECURSIVE tidy_viewport_set_origin(_, _, _)
RECURSIVE viewport_pos_changed_cb(_)

\* viewport_pos_changed_cb: the handler of notify::x-origin / notify::y-origin
viewport_pos_changed_cb(p) ==
  IF p.crashed \/ (p.origin.x = p.viewport_size.x /\
                   p.origin.y = p.viewport_size.y)
  THEN p
  ELSE
    Run(view_update_anchor(p,
          p.origin.x + p.anchor.x + p.viewport_size.width \div 2,
          p.origin.y + p.anchor.y + p.viewport_size.height \div 2),
        LAMBDA p1 :
      IF p1.anchor.x - p.anchor.x # 0
      THEN tidy_viewport_set_origin(p1,
             p.origin.x - (p1.anchor.x - p.anchor.x),
             p.origin.y - (p1.anchor.y - p.anchor.y))
      ELSE
        Run([p1 EXCEPT !.viewport_size.x = p.origin.x,
                       !.viewport_size.y = p.origin.y], LAMBDA p2 :
        Run(view_load_visible_tiles(p2), LAMBDA p3 :
        Run(view_tiles_reposition(p3), LAMBDA p4 :
          [p4 EXCEPT !.longitude = viewport_get_current_longitude(p4),
                     !.latitude = viewport_get_current_latitude(p4)]))))

\* tidy_viewport_set_origin: the origin changes, and when it did the
\* notification runs viewport_pos_changed_cb
tidy_viewport_set_origin(p, x, y) ==
  IF x = p.origin.x /\ y = p.origin.y THEN p
  ELSE Let([p EXCEPT !.origin = [x |-> x, y |-> y]],
           LAMBDA p1 : viewport_pos_changed_cb(p1))

\* map_load_level / map_zoom_to: the current level becomes an empty level
map_load_level(p, zoom_level) ==
  [p EXCEPT !.map = TRUE,
            !.stale = p.stale \cup Stale(p, p.current_level.tiles),
            !.current_level =
              [level |-> zoom_level,
               columns |-> champlain_map_source_get_column_count(zoom_level),
               rows |-> champlain_map_source_get_row_count(zoom_level),
               tiles |-> {}]]

create_initial_map(p) ==
  Let(map_load_level(p, p.zoom_level), LAMBDA p1 :
  Run(view_tiles_reposition(p1), LAMBDA p2 :
    [p2 EXCEPT !.n_notify_zoom_level = @ + 1]))

champlain_view_center_on(p, latitude, longitude) ==
  Let([p EXCEPT !.longitude = longitude, !.latitude = latitude,
                !.did_center_on = TRUE], LAMBDA p0 :
  Run(IF ~p0.map THEN create_initial_map(p0) ELSE p0, LAMBDA p1 :
    LET x == champlain_map_source_get_x(p1.zoom_level, longitude)
        y == champlain_map_source_get_y(p1.zoom_level, latitude)
    IN Run(view_update_anchor(p1, x, y), LAMBDA p2 :
       Run(tidy_viewport_set_origin(p2,
             x - p2.anchor.x - p2.viewport_size.width \div 2,
             y - p2.anchor.y - p2.viewport_size.height \div 2), LAMBDA p3 :
       Run(view_load_visible_tiles(p3), LAMBDA p4 :
         view_tiles_reposition(p4))))))

(***************************************************************************)
(* The go-to animation.  A playing timeline is a record: the GoToContext   *)
(* its handlers were connected with, and the time it has reached.          *)
(***************************************************************************)
\* clutter_alpha_get_alpha for CLUTTER_EASE_IN_OUT_CIRC, in sixteenths, at
\* the quarter of the duration the elapsed time has reached
clutter_alpha_get_alpha(elapsed, duration) ==
  LET quarter == (4 * elapsed) \div duration
  IN CASE quarter <= 0 -> 0
       [] quarter = 1 -> 1
       [] quarter = 2 -> 8
       [] quarter = 3 -> 15
       [] OTHER -> 16

\* champlain_view_stop_go_to that drops the context and leaves its timeline
\* playing
stop_go_to_TimelinePlaying(p) ==
  IF p.goto_context = 0 THEN p
  ELSE [p EXCEPT !.n_animation_completed = p.n_animation_completed + 1,
                 !.goto_context = 0]

\* champlain_view_stop_go_to that first moves the view to where the
\* animation was going
stop_go_to_Arriving(p) ==
  IF p.goto_context = 0 THEN p
  ELSE LET ctx == CHOOSE t \in p.timelines : t.id = p.goto_context
       IN Let(champlain_view_center_on(p, ctx.to_latitude, ctx.to_longitude),
              LAMBDA p1 :
            [p1 EXCEPT
               !.timelines = {t \in p.timelines : t.id # p.goto_context},
               !.n_animation_completed = p.n_animation_completed + 1,
               !.goto_context = 0])

\* champlain_view_stop_go_to that emits nothing
stop_go_to_Silent(p) ==
  IF p.goto_context = 0 THEN p
  ELSE [p EXCEPT !.timelines = {t \in p.timelines : t.id # p.goto_context},
                 !.goto_context = 0]

\* champlain_view_stop_go_to when the host's handler of animation-completed
\* calls champlain_view_stop_go_to itself, once: the call finds the context
\* still there, with its timeline and alpha released.  Using them is
\* undefined: the call fails (released |-> gone), or it goes through,
\* emits again and frees the context, which the first call frees again.
stop_go_to_reentered(p, released) ==
  IF p.goto_context = 0 THEN p
  ELSE IF released = "gone"
  THEN [p EXCEPT !.n_animation_completed = p.n_animation_completed + 1,
                 !.context_at_notify = p.goto_context,
                 !.crashed = TRUE]
  ELSE [p EXCEPT !.timelines = {t \in p.timelines : t.id # p.goto_context},
                 !.n_animation_completed = p.n_animation_completed + 2,
                 !.context_at_notify = p.goto_context,
                 !.goto_context = 0]

champlain_view_stop_go_to(p) ==
  IF p.goto_context = 0 THEN p
  ELSE [p EXCEPT !.timelines = {t \in p.timelines : t.id # p.goto_context},
                 !.n_animation_completed = p.n_animation_completed + 1,
                 !.context_at_notify = p.goto_context,
                 !.goto_context = 0]

\* champlain_view_dispose: the map is freed, then a go-to that is running is
\* stopped
champlain_view_dispose(p) ==
  champlain_view_stop_go_to(
    [p EXCEPT !.map = FALSE, !.current_level = NoLevel, !.disposed = TRUE])

\* g_new0 (GoToContext, 1): a context no playing timeline refers to
NewContext(p) ==
  CHOOSE id \in 1 .. (Cardinality(p.timelines) + 1) :
    \A t \in p.timelines : t.id # id

\* the part of champlain_view_go_to_with_duration that starts the animation
StartGoTo(p, latitude, longitude, duration) ==
  Let(champlain_view_stop_go_to(p), LAMBDA p1 :
  Let(NewContext(p1), LAMBDA id :
    [p1 EXCEPT !.goto_context = id,
               !.timelines = p1.timelines \cup
                 {[id |-> id,
                   from_latitude |-> p1.latitude,
                   from_longitude |-> p1.longitude,
                   to_latitude |-> latitude,
                   to_longitude |-> longitude,
                   duration |-> duration,
                   elapsed |-> 0,
                   undisturbed |-> TRUE]}]))

\* champlain_view_go_to_with_duration without the shortcut for duration 0
go_to_AlwaysAnimated(p, latitude, longitude, duration) ==
  StartGoTo(p, latitude, longitude, duration)

champlain_view_go_to_with_duration(p, latitude, longitude, duration) ==
  IF duration = 0 THEN champlain_view_center_on(p, latitude, longitude)
  ELSE StartGoTo(p, latitude, longitude, duration)

\* the default duration in ms of champlain_view_go_to, as if it did not
\* depend on the zoom level
DefaultDurationFixed(zoom_level) == 500

\* guint duration = 500 * zoom_level / 2.0
DefaultDuration(zoom_level) == (500 * zoom_level) \div 2

champlain_view_go_to(p, latitude, longitude) ==
  champlain_view_go_to_with_duration(p, latitude, longitude,
    DefaultDuration(p.zoom_level))

timeline_new_frame(p, ctx) ==
  LET alpha == clutter_alpha_get_alpha(ctx.elapsed, ctx.duration)
      lat == ctx.to_latitude - ctx.from_latitude
      lon == ctx.to_longitude - ctx.from_longitude
  IN champlain_view_center_on(p,
       ctx.from_latitude + (alpha * lat) \div 16,
       ctx.from_longitude + (alpha * lon) \div 16)

timeline_completed(p) == champlain_view_stop_go_to(p)

(***************************************************************************)
(* Size and zoom                                                           *)
(***************************************************************************)
champlain_view_set_size(p, width, height) ==
  Let([p EXCEPT !.viewport_size.width = width,
                !.viewport_size.height = height], LAMBDA p1 :
    IF p1.keep_center_on_resize
    THEN champlain_view_center_on(p1, p1.latitude, p1.longitude)
    ELSE view_load_visible_tiles(p1))

ZOOM_LEVEL_OUT_OF_RANGE(p, level) ==
  level < p.min_zoom_level \/ level > p.max_zoom_level

\* map_zoom_to: the map switches to an empty level when the source has it
map_zoom_to(p, zoom_level) ==
  /\ zoom_level >= champlain_map_source_get_min_zoom_level(p.map_source)
  /\ zoom_level <= champlain_map_source_get_max_zoom_level(p.map_source)

\* champlain_view_set_zoom_level, stopping the go-to before it looks at the
\* requested level
set_zoom_level_StopFirst(p, zoom_level) ==
  IF ~p.map THEN p
  ELSE Let(champlain_view_stop_go_to(p), LAMBDA p1 :
         IF zoom_level = p.zoom_level \/ ZOOM_LEVEL_OUT_OF_RANGE(p, zoom_level)
              \/ ~map_zoom_to(p, zoom_level)
         THEN p1
         ELSE Run(champlain_view_center_on(
                    [map_load_level(p1, zoom_level) EXCEPT
                       !.zoom_level = zoom_level],
                    p1.latitude, p1.longitude), LAMBDA p2 :
                [p2 EXCEPT !.n_notify_zoom_level = @ + 1]))

champlain_view_set_zoom_level(p, zoom_level) ==
  IF ~p.map THEN p
  ELSE IF zoom_level = p.zoom_level \/ ZOOM_LEVEL_OUT_OF_RANGE(p, zoom_level)
  THEN p
  ELSE
    Let(champlain_view_stop_go_to(p), LAMBDA p1 :
      IF ~map_zoom_to(p, zoom_level) THEN p1
      ELSE Run(champlain_view_center_on(
                 [map_load_level(p1, zoom_level) EXCEPT
                    !.zoom_level = zoom_level],
                 p1.latitude, p1.longitude), LAMBDA p2 :
             [p2 EXCEPT !.n_notify_zoom_level = @ + 1]))

champlain_view_zoom_in(p) == champlain_view_set_zoom_level(p, p.zoom_level + 1)

champlain_view_zoom_out(p) == champlain_view_set_zoom_level(p, p.zoom_level - 1)

\* view_set_zoom_level_at keeping the centre of the view, not the point
set_zoom_level_at_KeepsCentre(p, zoom_level, x, y) ==
  champlain_view_set_zoom_level(p, zoom_level)

\* view_set_zoom_level_at: the zoom level changes and the point (x, y) of the
\* screen keeps its coordinates.  The finger-scroll actor is at the origin of
\* the stage, so that rel_x = x and rel_y = y.
view_set_zoom_level_at(p, zoom_level, x, y) ==
  IF zoom_level = p.zoom_level \/ ZOOM_LEVEL_OUT_OF_RANGE(p, zoom_level)
  THEN p
  ELSE
    Let(champlain_view_stop_go_to(p), LAMBDA p1 :
      IF ~p1.map THEN [p1 EXCEPT !.crashed = TRUE]
      ELSE
        LET lon == champlain_map_source_get_longitude(p1.zoom_level,
                     p1.viewport_size.x + x + p1.anchor.x)
            lat == champlain_map_source_get_latitude(p1.zoom_level,
                     p1.viewport_size.y + y + p1.anchor.y)
            x_diff == p1.viewport_size.width \div 2 - x
            y_diff == p1.viewport_size.height \div 2 - y
        IN IF ~map_zoom_to(p, zoom_level) THEN p1
           ELSE
             LET x2 == champlain_map_source_get_x(zoom_level, lon)
                 y2 == champlain_map_source_get_y(zoom_level, lat)
                 lon2 == champlain_map_source_get_longitude(zoom_level,
                           x2 + x_diff)
                 lat2 == champlain_map_source_get_latitude(zoom_level,
                           y2 + y_diff)
             IN Run(champlain_view_center_on(
                      [map_load_level(p1, zoom_level) EXCEPT
                         !.zoom_level = zoom_level],
                      lat2, lon2), LAMBDA p2 :
                  [p2 EXCEPT !.n_notify_zoom_level = @ + 1]))

\* scroll_event: one level up or down, at the pointer
scroll_event(p, direction, x, y) ==
  view_set_zoom_level_at(p, p.zoom_level + direction, x, y)

champlain_view_set_min_zoom_level(p, min_zoom_level) ==
  IF \/ p.min_zoom_level = min_zoom_level
     \/ min_zoom_level > p.max_zoom_level
     \/ min_zoom_level <
          champlain_map_source_get_min_zoom_level(p.map_source)
  THEN p
  ELSE Let([p EXCEPT !.min_zoom_level = min_zoom_level], LAMBDA p1 :
         IF p1.zoom_level < min_zoom_level
         THEN champlain_view_set_zoom_level(p1, min_zoom_level)
         ELSE p1)

champlain_view_set_max_zoom_level(p, max_zoom_level) ==
  IF \/ p.max_zoom_level = max_zoom_level
     \/ max_zoom_level < p.min_zoom_level
     \/ max_zoom_level >
          champlain_map_source_get_max_zoom_level(p.map_source)
  THEN p
  ELSE Let([p EXCEPT !.max_zoom_level = max_zoom_level], LAMBDA p1 :
         IF p1.zoom_level > max_zoom_level
         THEN champlain_view_set_zoom_level(p1, max_zoom_level)
         ELSE p1)

\* champlain_view_set_map_source: the bounds become the source's; a view
\* with a map gets a new map and the level of its zoom level, cut to the
\* source's range, and is centred where it was
champlain_view_set_map_source(p, source) ==
  IF p.map_source = source THEN p
  ELSE
    Let([p EXCEPT
           !.map_source = source,
           !.min_zoom_level = champlain_map_source_get_min_zoom_level(source),
           !.max_zoom_level = champlain_map_source_get_max_zoom_level(source)],
        LAMBDA p1 :
      IF ~p1.map THEN p1
      ELSE
        Let(IF p1.zoom_level > p1.max_zoom_level
            THEN [p1 EXCEPT !.zoom_level = p1.max_zoom_level,
                            !.n_notify_zoom_level = @ + 1]
            ELSE IF p1.zoom_level < p1.min_zoom_level
            THEN [p1 EXCEPT !.zoom_level = p1.min_zoom_level,
                            !.n_notify_zoom_level = @ + 1]
            ELSE p1, LAMBDA p2 :
        Run(view_load_visible_tiles(map_load_level(p2, p2.zoom_level)),
            LAMBDA p3 :
        Run(view_tiles_reposition(p3), LAMBDA p4 :
          champlain_view_center_on(p4, p4.latitude, p4.longitude)))))

(***************************************************************************)
(* champlain_view_ensure_visible.  A box is the record of the sorted       *)
(* corners.                                                                *)
(***************************************************************************)
SortedBox(lat1, lon1, lat2, lon2) ==
  [min_lat |-> Min(lat1, lat2), max_lat |-> Max(lat1, lat2),
   min_lon |-> Min(lon1, lon2), max_lon |-> Max(lon1, lon2)]

\* the test of the loop: the pixels between the corners of the box at a
\* zoom level are no more than the viewport has
BoxFits(p, zoom_level, box) ==
  LET min_x == champlain_map_source_get_x(zoom_level, box.min_lon)
      min_y == champlain_map_source_get_y(zoom_level, box.min_lat)
      max_x == champlain_map_source_get_x(zoom_level, box.max_lon)
      max_y == champlain_map_source_get_y(zoom_level, box.max_lat)
  IN /\ min_y - max_y <= p.viewport_size.height
     /\ max_x - min_x <= p.viewport_size.width

\* the do-while loop, from its step-th iteration on: the zoom level it
\* ends with, whether it found a good size, and the iterations it took
RECURSIVE ensure_visible_loop(_, _, _, _)
ensure_visible_loop(p, zoom_level, box, step) ==
  LET good_size == BoxFits(p, zoom_level, box)
      next_level == IF good_size THEN zoom_level ELSE zoom_level - 1
  IN IF next_level <= p.min_zoom_level \/ good_size
     THEN [zoom_level |-> next_level, good_size |-> good_size,
           steps |-> step]
     ELSE ensure_visible_loop(p, next_level, box, step + 1)

\* the point ensure_visible moves to, were it the middle of the box
ensure_visible_Midpoint(box, good_size) ==
  IF good_size
  THEN [latitude |-> box.min_lat + (box.max_lat - box.min_lat) \div 2,
        longitude |-> box.min_lon + (box.max_lon - box.min_lon) \div 2]
  ELSE [latitude |-> 0, longitude |-> 0]

\* the point ensure_visible moves to: min_lat + height / 2.0 and
\* min_lon + width / 2.0, where width and height are the sides of the box
\* times 1.1, or all 0 when no good size was found
ensure_visible_target(box, good_size) ==
  IF good_size
  THEN [latitude |-> box.min_lat + (11 * (box.max_lat - box.min_lat)) \div 20,
        longitude |-> box.min_lon + (11 * (box.max_lon - box.min_lon)) \div 20]
  ELSE [latitude |-> 0, longitude |-> 0]

champlain_view_ensure_visible(p, lat1, lon1, lat2, lon2, animate) ==
  LET box == SortedBox(lat1, lon1, lat2, lon2)
  IN Let(ensure_visible_loop(p, p.zoom_level, box, 1), LAMBDA found :
     Let(IF found.good_size THEN found.zoom_level ELSE p.min_zoom_level,
         LAMBDA zoom_level :
     Let(ensure_visible_target(box, found.good_size), LAMBDA target :
     Run(champlain_view_set_zoom_level(p, zoom_level), LAMBDA p1 :
       IF animate
       THEN champlain_view_go_to(p1, target.latitude, target.longitude)
       ELSE champlain_view_center_on(p1, target.latitude,
              target.longitude)))))

\* tile_state_notify that positions the tile and leaves the state of the
\* view as it is
tile_state_notify_PositionOnly(p, tile, new_state) ==
  [p EXCEPT !.current_level.tiles =
     (p.current_level.tiles \ {tile}) \cup
     {view_position_tile(p, [tile EXCEPT !.state = new_state])}]

\* tile_state_notify that positions the tile and leaves the state of the view
\* as it is
tile_state_notify_NoUpdate(p, tile, new_state) ==
  [p EXCEPT !.current_level.tiles =
     IF tile \in p.current_level.tiles
     THEN (p.current_level.tiles \ {tile}) \cup
          {view_position_tile(p, [tile EXCEPT !.state = new_state])}
     ELSE p.current_level.tiles,
            !.stale = p.stale \ {tile}]

\* tile_state_notify that puts the tile in the current level
tile_state_notify_PutsBack(p, tile, new_state) ==
  Let([p EXCEPT !.current_level.tiles =
         (p.current_level.tiles \ {tile}) \cup
         {view_position_tile(p, Tile(tile.x, tile.y, tile.zoom_level,
                                     new_state, 0, 0))},
                !.stale = p.stale \ {tile}],
      LAMBDA p1 : view_update_state(p1))

\* tile_state_notify, for a tile whose fetch ended in new_state: the tile is
\* positioned, in the level or out of it, and the state of the view updated
tile_state_notify(p, tile, new_state) ==
  Let([p EXCEPT !.current_level.tiles =
         IF tile \in p.current_level.tiles
         THEN (p.current_level.tiles \ {tile}) \cup
              {view_position_tile(p, [tile EXCEPT !.state = new_state])}
         ELSE p.current_level.tiles,
                !.stale = p.stale \ {tile}],
      LAMBDA p1 : view_update_state(p1))

\* the range resize_viewport gives the adjustments of the viewport
AdjustLower(p, extent) ==
  IF p.zoom_level < AnchorZoomLevel THEN -(extent \div 2) ELSE 0
AdjustUpper(p, extent) ==
  IF p.zoom_level < AnchorZoomLevel
  THEN champlain_zoom_level_get_width(p.current_level) *
         champlain_map_source_get_tile_size - extent \div 2
  ELSE G_MAXINT16
Clamp(v, lower, upper) == Min(Max(v, lower), upper)

(***************************************************************************)
(* Actions                                                                 *)
(***************************************************************************)
Init ==
  /\ priv = InitPriv
  /\ last = [op |-> "init"]
  /\ used = [scrolls |-> 0, fetch_ends |-> 0, go_tos |-> 0, zooms |-> 0]

\* a zoom-change request the view turns down: the level is the current one,
\* outside the view's range, or one the map has no grid for
Refused(p, zoom_level) ==
  \/ zoom_level = p.zoom_level
  \/ ZOOM_LEVEL_OUT_OF_RANGE(p, zoom_level)
  \/ ~map_zoom_to(p, zoom_level)

\* every handler but a frame disturbs the animations that are running
Disturb(p) ==
  [p EXCEPT !.timelines = {[t EXCEPT !.undisturbed = FALSE] : t \in p.timelines}]

Start(p) == Disturb(Begin(p))

\* the view can be called: it has not failed and is not disposed
Alive == ~priv.crashed /\ ~priv.disposed

CenterOn ==
  \E c \in CenterInputs :
    /\ Alive
    /\ priv' = champlain_view_center_on(Start(priv), c[1], c[2])
    /\ last' = [op |-> "center_on", was_running |-> priv.timelines # {},
                latitude |-> c[1], longitude |-> c[2]]
    /\ UNCHANGED used

\* center_on with coordinates that are not on the map
CenterOnOffMap ==
  \E c \in OffMapInputs :
    /\ Alive
    /\ priv' = champlain_view_center_on(Start(priv), c[1], c[2])
    /\ last' = [op |-> "center_on_off_map", latitude |-> c[1],
                longitude |-> c[2]]
    /\ UNCHANGED used

\* the host scrolls: the viewport's origin is set within the adjustments
Scroll ==
  \E o \in {<<ox, priv.origin.y>> : ox \in OriginInputsX} \cup
           {<<priv.origin.x, oy>> : oy \in OriginInputsY} :
    LET x == Clamp(o[1], AdjustLower(priv, priv.viewport_size.width),
                   AdjustUpper(priv, priv.viewport_size.width))
        y == Clamp(o[2], AdjustLower(priv, priv.viewport_size.height),
                   AdjustUpper(priv, priv.viewport_size.height))
    IN /\ Alive
       /\ priv.map
       /\ used.scrolls < MaxScrolls
       /\ <<x, y>> # <<priv.origin.x, priv.origin.y>>
       /\ priv' = tidy_viewport_set_origin(Start(priv), x, y)
       /\ last' = [op |-> "scroll", old_anchor |-> priv.anchor,
                   raw_x |-> x + priv.anchor.x, raw_y |-> y + priv.anchor.y]
       /\ used' = [used EXCEPT !.scrolls = @ + 1]

SetSize ==
  \E size \in SizeInputs :
    /\ Alive
    /\ priv' = champlain_view_set_size(Start(priv), size[1], size[2])
    /\ last' = [op |-> "set_size",
                again |-> /\ size[1] = priv.viewport_size.width
                          /\ size[2] = priv.viewport_size.height
                          /\ priv.did_pass]
    /\ UNCHANGED used

SetKeepCenterOnResize ==
  \E value \in BOOLEAN :
    /\ Alive
    /\ value # priv.keep_center_on_resize
    /\ priv' = [Start(priv) EXCEPT !.keep_center_on_resize = value]
    /\ last' = [op |-> "set_keep_center_on_resize"]
    /\ UNCHANGED used

SetZoomLevel ==
  \E zoom_level \in ZoomInputs :
    /\ Alive
    /\ priv' = champlain_view_set_zoom_level(Start(priv), zoom_level)
    /\ last' = [op |-> "set_zoom_level", was_running |-> priv.timelines # {},
                changed |-> priv'.zoom_level # priv.zoom_level,
                refused |-> Refused(priv, zoom_level),
                level |-> IF Refused(priv, zoom_level) THEN priv.zoom_level
                          ELSE zoom_level]
    /\ UNCHANGED used

ZoomIn ==
  /\ Alive
  /\ priv' = champlain_view_zoom_in(Start(priv))
  /\ priv'.zoom_level # priv.zoom_level => used.zooms < MaxZooms
  /\ last' = [op |-> "zoom_in", was_running |-> priv.timelines # {},
              changed |-> priv'.zoom_level # priv.zoom_level,
              refused |-> Refused(priv, priv.zoom_level + 1)]
  /\ used' = IF priv'.zoom_level # priv.zoom_level
             THEN [used EXCEPT !.zooms = @ + 1] ELSE used

ZoomOut ==
  /\ Alive
  /\ priv' = champlain_view_zoom_out(Start(priv))
  /\ priv'.zoom_level # priv.zoom_level => used.zooms < MaxZooms
  /\ last' = [op |-> "zoom_out", was_running |-> priv.timelines # {},
              changed |-> priv'.zoom_level # priv.zoom_level,
              refused |-> Refused(priv, priv.zoom_level - 1)]
  /\ used' = IF priv'.zoom_level # priv.zoom_level
             THEN [used EXCEPT !.zooms = @ + 1] ELSE used

\* the wheel turns over a point of the viewport (a double click there zooms
\* in as a turn upwards does)
ScrollEvent ==
  \E direction \in {1, -1}, point \in PointInputs :
    /\ Alive
    /\ priv' = scroll_event(Start(priv), direction, point[1], point[2])
    /\ priv'.zoom_level # priv.zoom_level => used.zooms < MaxZooms
    /\ last' = [op |-> "scroll_event", was_running |-> priv.timelines # {},
                changed |-> priv'.zoom_level # priv.zoom_level,
                refused |-> Refused(priv, priv.zoom_level + direction),
                x |-> point[1], y |-> point[2],
                longitude |-> champlain_map_source_get_longitude(
                  priv.zoom_level, priv.viewport_size.x + point[1] +
                  priv.anchor.x),
                latitude |-> champlain_map_source_get_latitude(
                  priv.zoom_level, priv.viewport_size.y + point[2] +
                  priv.anchor.y)]
    /\ used' = IF priv'.zoom_level # priv.zoom_level
               THEN [used EXCEPT !.zooms = @ + 1] ELSE used

SetMinZoomLevel ==
  \E min_zoom_level \in MinZoomInputs :
    /\ Alive
    /\ priv' = champlain_view_set_min_zoom_level(Start(priv), min_zoom_level)
    /\ last' = [op |-> "set_min_zoom_level",
                changed |-> priv'.zoom_level # priv.zoom_level]
    /\ UNCHANGED used

SetMaxZoomLevel ==
  \E max_zoom_level \in MaxZoomInputs :
    /\ Alive
    /\ priv' = champlain_view_set_max_zoom_level(Start(priv), max_zoom_level)
    /\ last' = [op |-> "set_max_zoom_level",
                changed |-> priv'.zoom_level # priv.zoom_level]
    /\ UNCHANGED used

SetMapSource ==
  \E source \in MapSources :
    /\ Alive
    /\ priv' = champlain_view_set_map_source(Start(priv), source)
    /\ last' = [op |-> "set_map_source", source |-> source,
                clamped |-> priv'.zoom_level # priv.zoom_level]
    /\ UNCHANGED used

EnsureVisible ==
  \E b \in BoxInputs, animate \in BOOLEAN :
    LET found == ensure_visible_loop(priv, priv.zoom_level,
                   SortedBox(b[1], b[2], b[3], b[4]), 1)
        \* a go-to was started: its timeline is the one nothing has disturbed
        starts == \E t \in priv'.timelines : t.undisturbed
    IN /\ Alive
       /\ priv' = champlain_view_ensure_visible(Start(priv), b[1], b[2],
                    b[3], b[4], animate)
       /\ starts => used.go_tos < MaxGoTos
       /\ last' = [op |-> "ensure_visible", box |-> b, animate |-> animate,
                   zoom_level |-> priv.zoom_level,
                   min_zoom_level |-> priv.min_zoom_level,
                   viewport_size |-> priv.viewport_size,
                   good_size |-> found.good_size, steps |-> found.steps]
       /\ used' = IF starts THEN [used EXCEPT !.go_tos = @ + 1] ELSE used

\* a fetch ends: the tile becomes DONE or ERROR
TileDone ==
  \E tile \in priv.current_level.tiles :
    /\ Alive
    /\ used.fetch_ends < MaxFetchEnds
    /\ tile.state = "LOADING"
    /\ priv' = tile_state_notify(Start(priv), tile, "DONE")
    /\ last' = [op |-> "tile_done"]
    /\ used' = [used EXCEPT !.fetch_ends = @ + 1]

\* the fetch of a tile of the level ends, with success or with failure
FetchEnd ==
  \E tile \in priv.current_level.tiles, new_state \in {"DONE", "ERROR"} :
    /\ Alive
    /\ tile.state = "LOADING"
    /\ priv' = tile_state_notify(Start(priv), tile, new_state)
    /\ last' = [op |-> "fetch_end", state |-> new_state]
    /\ UNCHANGED used

\* the fetch of a tile that has left the level ends
StaleTileDone ==
  \E tile \in priv.stale, new_state \in {"DONE", "ERROR"} :
    /\ Alive
    /\ priv' = tile_state_notify(Start(priv), tile, new_state)
    /\ last' = [op |-> "stale_tile_done", state |-> new_state,
                x |-> tile.x, y |-> tile.y, zoom_level |-> tile.zoom_level]
    /\ UNCHANGED used

TileError ==
  \E tile \in priv.current_level.tiles :
    /\ Alive
    /\ used.fetch_ends < MaxFetchEnds
    /\ tile.state = "LOADING"
    /\ priv' = tile_state_notify(Start(priv), tile, "ERROR")
    /\ last' = [op |-> "tile_error"]
    /\ used' = [used EXCEPT !.fetch_ends = @ + 1]

GoTo ==
  \E c \in CenterInputs, duration \in DurationInputs :
    /\ Alive
    /\ duration > 0 => used.go_tos < MaxGoTos
    /\ priv' = champlain_view_go_to_with_duration(Start(priv), c[1], c[2],
                 duration)
    /\ last' = [op |-> "go_to", latitude |-> c[1], longitude |-> c[2],
                duration |-> duration, was_running |-> priv.timelines # {}]
    /\ used' = IF duration > 0 THEN [used EXCEPT !.go_tos = @ + 1] ELSE used

\* champlain_view_go_to: the duration follows from the zoom level
GoToDefault ==
  \E c \in CenterInputs :
    /\ Alive
    /\ DefaultDuration(priv.zoom_level) > 0 => used.go_tos < MaxGoTos
    /\ priv' = champlain_view_go_to(Start(priv), c[1], c[2])
    /\ last' = [op |-> "go_to_default", latitude |-> c[1],
                longitude |-> c[2], zoom_level |-> priv.zoom_level,
                was_running |-> priv.timelines # {}]
    /\ used' = IF DefaultDuration(priv.zoom_level) > 0
               THEN [used EXCEPT !.go_tos = @ + 1] ELSE used

StopGoTo ==
  /\ Alive
  /\ priv' = champlain_view_stop_go_to(Start(priv))
  /\ last' = [op |-> "stop_go_to", was_running |-> priv.timelines # {},
              frames |-> \E t \in priv.timelines : t.elapsed > 0]
  /\ UNCHANGED used

\* the frame clock delivers a frame of a playing timeline; the frames before
\* it may have been skipped
TimelineNewFrame ==
  \E t \in priv.timelines :
    \E elapsed \in (t.elapsed + 1) .. t.duration :
      LET ctx == [t EXCEPT !.elapsed = elapsed]
          p == [Begin(priv) EXCEPT
                  !.timelines = (priv.timelines \ {t}) \cup {ctx}]
      IN /\ Alive
         /\ priv' = timeline_new_frame(p, ctx)
         /\ last' = [op |-> "new_frame", id |-> t.id]
         /\ UNCHANGED used

\* the clock reaches the duration of a playing timeline: it stops playing
\* and emits "completed"
TimelineCompleted ==
  \E t \in priv.timelines :
    LET p == [Begin(priv) EXCEPT !.timelines = priv.timelines \ {t}]
    IN /\ Alive
       /\ priv' = timeline_completed(p)
       /\ last' = [op |-> "completed", id |-> t.id,
                   undisturbed |-> t.undisturbed,
                   to_latitude |-> t.to_latitude,
                   to_longitude |-> t.to_longitude]
       /\ UNCHANGED used

\* stop_go_to on a view whose host stops the go-to again from its handler of
\* animation-completed
StopGoToReentered ==
  \E released \in {"gone", "readable"} :
    /\ Alive
    /\ priv' = stop_go_to_reentered(Start(priv), released)
    /\ last' = [op |-> "stop_go_to_reentered",
                was_running |-> priv.timelines # {}]
    /\ UNCHANGED used

\* the last reference to the view is dropped, or the host runs its dispose
\* again
Dispose ==
  /\ ~priv.crashed
  /\ priv' = champlain_view_dispose(Start(priv))
  /\ last' = [op |-> "dispose", again |-> priv.disposed,
              was_running |-> priv.timelines # {}]
  /\ UNCHANGED used

Next ==
  \/ CenterOn
  \/ CenterOnOffMap
  \/ Scroll
  \/ SetSize
  \/ SetKeepCenterOnResize
  \/ SetZoomLevel
  \/ ZoomIn
  \/ ZoomOut
  \/ ScrollEvent
  \/ SetMinZoomLevel
  \/ SetMaxZoomLevel
  \/ SetMapSource
  \/ Dispose
  \/ StopGoToReentered
  \/ EnsureVisible
  \/ TileDone
  \/ FetchEnd
  \/ StaleTileDone
  \/ TileError
  \/ GoTo
  \/ GoToDefault
  \/ StopGoTo
  \/ TimelineNewFrame
  \/ TimelineCompleted

Spec == Init /\ [][Next]_vars

\* the view without the go-to animation
NextView ==
  \/ CenterOn
  \/ Scroll
  \/ SetSize
  \/ SetZoomLevel
  \/ TileDone
  \/ TileError

SpecView == Init /\ [][NextView]_vars

\* the go-to animation, with tiles whose fetches stay in flight
NextGoTo ==
  \/ CenterOn
  \/ SetSize
  \/ SetZoomLevel
  \/ GoTo
  \/ StopGoTo
  \/ TimelineNewFrame
  \/ TimelineCompleted

SpecGoTo == Init /\ [][NextGoTo]_vars

\* resizing, scrolling and zooming from the initial centre, with and without
\* keep-center-on-resize
NextResize ==
  \/ Scroll
  \/ SetSize
  \/ SetKeepCenterOnResize
  \/ SetZoomLevel
  \/ TileDone

SpecResize == Init /\ [][NextResize]_vars

\* zoom changes by the host and by the wheel
NextZoom ==
  \/ CenterOn
  \/ SetSize
  \/ SetZoomLevel
  \/ ZoomIn
  \/ ZoomOut
  \/ ScrollEvent

SpecZoom == Init /\ [][NextZoom]_vars

\* zoom changes while go-to animations play
NextZoomGoTo ==
  \/ SetZoomLevel
  \/ ZoomIn
  \/ ZoomOut
  \/ ScrollEvent
  \/ GoToDefault

SpecZoomGoTo == Init /\ [][NextZoomGoTo]_vars

\* ensure_visible, from every zoom level and size the host sets
NextEnsure ==
  \/ SetSize
  \/ SetZoomLevel
  \/ SetMinZoomLevel
  \/ EnsureVisible

SpecEnsure == Init /\ [][NextEnsure]_vars

(***************************************************************************)
(* view_update_anchor on its own: a view with a map at a zoom level around *)
(* the threshold, whose level has a grid the map source chose, is given    *)
(* one centre after another, each within the grid.                         *)
(***************************************************************************)
InitAnchor ==
  /\ \E zoom_level \in AnchorZoomInputs, grid \in GridInputs,
        size \in AnchorSizeInputs :
       priv = [InitPriv EXCEPT
                 !.zoom_level = zoom_level,
                 !.map = TRUE,
                 !.current_level = [level |-> zoom_level,
                                    columns |-> grid[1], rows |-> grid[2],
                                    tiles |-> {}],
                 !.viewport_size = [x |-> 0, y |-> 0, width |-> size,
                                    height |-> size]]
  /\ last = [op |-> "init"]
  /\ used = [scrolls |-> 0, fetch_ends |-> 0, go_tos |-> 0, zooms |-> 0]

\* the centres tried on one axis of a grid `extent` pixels long: within the
\* grid, and beyond it as the projection of coordinates off the map is
CentersOn(extent) ==
  {-100, 0, extent \div 2, extent \div 2 + 100, extent, extent + 20000}

UpdateAnchor ==
  \E x \in CentersOn(champlain_zoom_level_get_width(priv.current_level) *
                      champlain_map_source_get_tile_size),
     y \in CentersOn(champlain_zoom_level_get_height(priv.current_level) *
                      champlain_map_source_get_tile_size) :
    /\ ~priv.crashed
    /\ priv' = view_update_anchor(priv, x, y)
    /\ last' = [op |-> "update_anchor", x |-> x, y |-> y,
                anchor |-> priv.anchor,
                anchor_zoom_level |-> priv.anchor_zoom_level,
                again |-> /\ last.op = "update_anchor"
                          /\ last.x = x
                          /\ last.y = y]
    /\ UNCHANGED used

SpecAnchor == InitAnchor /\ [][UpdateAnchor]_vars

\* go-to animations and every way they end
NextGoToEnd ==
  \/ SetSize
  \/ SetZoomLevel
  \/ GoTo
  \/ StopGoTo
  \/ TimelineNewFrame
  \/ TimelineCompleted
  \/ Dispose

SpecGoToEnd == Init /\ [][NextGoToEnd]_vars

\* go-to animations on a view whose host reacts to animation-completed
NextReenter ==
  \/ SetSize
  \/ SetZoomLevel
  \/ GoTo
  \/ StopGoTo
  \/ StopGoToReentered
  \/ TimelineNewFrame
  \/ TimelineCompleted

SpecReenter == Init /\ [][NextReenter]_vars

\* a view whose fetches are followed to their end after their tiles have
\* left the level
InitStale ==
  /\ priv = [InitPriv EXCEPT !.follow_stale = TRUE]
  /\ last = [op |-> "init"]
  /\ used = [scrolls |-> 0, fetch_ends |-> 0, go_tos |-> 0, zooms |-> 0]

NextStale ==
  \/ CenterOn
  \/ SetSize
  \/ SetZoomLevel
  \/ SetMapSource
  \/ TileDone
  \/ StaleTileDone

SpecStale == InitStale /\ [][NextStale]_vars

\* a view whose host stops sending events at some point, and whose fetches
\* all end
InitLive ==
  /\ priv = InitPriv
  /\ last = [op |-> "init"]
  /\ used = [scrolls |-> 0, fetch_ends |-> 0, go_tos |-> 0, zooms |-> 0,
             quiet |-> FALSE]

\* the host sends its last event
Quiesce ==
  /\ ~used.quiet
  /\ used' = [used EXCEPT !.quiet = TRUE]
  /\ UNCHANGED <<priv, last>>

Event ==
  /\ ~used.quiet
  /\ \/ CenterOn
     \/ SetSize
     \/ SetZoomLevel

NextLive ==
  \/ Event
  \/ Quiesce
  \/ FetchEnd

SpecLive == InitLive /\ [][NextLive]_vars /\ WF_vars(FetchEnd)

\* ---- zoomlevel.c ----

\* the tiles a level is given at most
MaxLevelTiles == 2

\* the rows and columns of the levels 0, 1 and 15 of a map, whose products
\* a gint holds
ZoomLevelZooms == {0, 1, 15}
ZoomLevelCounts == {1, 2, 32768}
ZoomLevelTileSizes == {256, 512}

zoom_level_new(zoom_level, row, column, tile_size) ==
  [level |-> zoom_level,
   row_count |-> row,
   column_count |-> column,
   tile_size |-> tile_size,
   tiles |-> << >>,
   reserved |-> IF row * column > 256 THEN 256 ELSE row * column,
   anchor |-> [x |-> 0, y |-> 0]]

\* zoom_level_free that stops before the last tile
zoom_level_free_ButLast(level) ==
  [i \in 1..(Len(level.tiles) - 1) |-> level.tiles[i]]

\* zoom_level_free: the tiles tile_free is called with, in order
zoom_level_free(level) == [i \in 1..Len(level.tiles) |-> level.tiles[i]]

\* zoom_level_get_width that leaves the size of the tiles out
zoom_level_get_width_InTiles(level) == level.column_count

zoom_level_get_width(level) == level.column_count * level.tile_size

zoom_level_get_height(level) == level.row_count * level.tile_size

\* the arguments zoom_level_new is called with
InitZoomLevel ==
  /\ priv = InitPriv
  /\ used = [scrolls |-> 0, fetch_ends |-> 0, go_tos |-> 0, zooms |-> 0]
  /\ \E zoom_level \in ZoomLevelZooms, row \in ZoomLevelCounts,
        column \in ZoomLevelCounts, tile_size \in ZoomLevelTileSizes :
       last = [op |-> "arguments", zoom_level |-> zoom_level, row |-> row,
               column |-> column, tile_size |-> tile_size]

ZoomLevelNew ==
  /\ last.op = "arguments"
  /\ last' = [last EXCEPT !.op = "zoom_level_new"] @@
             [zoom |-> zoom_level_new(last.zoom_level, last.row, last.column,
                                      last.tile_size),
              freed |-> << >>, result |-> 0]
  /\ UNCHANGED <<priv, used>>

\* the owner of the level appends a tile to its array
ZoomLevelAddTile ==
  /\ last.op \in {"zoom_level_new", "add_tile", "get_width", "get_height"}
  /\ Len(last.zoom.tiles) < MaxLevelTiles
  /\ last' = [last EXCEPT !.op = "add_tile",
                          !.zoom.tiles = Append(@, Len(@) + 1)]
  /\ UNCHANGED <<priv, used>>

ZoomLevelGetWidth ==
  /\ last.op \in {"zoom_level_new", "add_tile", "get_height"}
  /\ last' = [last EXCEPT !.op = "get_width",
                          !.result = zoom_level_get_width(last.zoom)]
  /\ UNCHANGED <<priv, used>>

ZoomLevelGetHeight ==
  /\ last.op \in {"zoom_level_new", "add_tile", "get_width"}
  /\ last' = [last EXCEPT !.op = "get_height",
                          !.result = zoom_level_get_height(last.zoom)]
  /\ UNCHANGED <<priv, used>>

ZoomLevelFree ==
  /\ last.op \in {"zoom_level_new", "add_tile", "get_width", "get_height"}
  /\ last' = [last EXCEPT !.op = "zoom_level_free",
                          !.freed = zoom_level_free(last.zoom)]
  /\ UNCHANGED <<priv, used>>

NextZoomLevel ==
  \/ ZoomLevelNew
  \/ ZoomLevelAddTile
  \/ ZoomLevelGetWidth
  \/ ZoomLevelGetHeight
  \/ ZoomLevelFree

SpecZoomLevel == InitZoomLevel /\ [][NextZoomLevel]_vars

\* a view whose map source the host changes
NextSource ==
  \/ CenterOn
  \/ SetSize
  \/ SetZoomLevel
  \/ SetMapSource
  \/ TileDone

SpecSource == Init /\ [][NextSource]_vars

\* the zoom level and its two bounds, with and without a map
NextBounds ==
  \/ SetSize
  \/ SetZoomLevel
  \/ ZoomIn
  \/ ZoomOut
  \/ SetMinZoomLevel
  \/ SetMaxZoomLevel

SpecBounds == Init /\ [][NextBounds]_vars

\* center_on with coordinates on and off the map
NextOffMap ==
  \/ CenterOn
  \/ CenterOnOffMap
  \/ SetSize
  \/ SetZoomLevel

SpecOffMap == Init /\ [][NextOffMap]_vars

\* go-to animations of the default duration, from every zoom level the
\* host sets
NextGoToDefault ==
  \/ CenterOn
  \/ SetSize
  \/ SetZoomLevel
  \/ GoToDefault
  \/ StopGoTo
  \/ TimelineCompleted

SpecGoToDefault == Init /\ [][NextGoToDefault]_vars

(***************************************************************************)
(* The visible rectangle in raw pixels, and the grid cells it meets.       *)
(***************************************************************************)
Tiles == priv.current_level.tiles
Columns == champlain_zoom_level_get_width(priv.current_level)
Rows == champlain_zoom_level_get_height(priv.current_level)
RawLeft == priv.viewport_size.x + priv.anchor.x
RawTop == priv.viewport_size.y + priv.anchor.y
RawRight == RawLeft + priv.viewport_size.width
RawBottom == RawTop + priv.viewport_size.height

\* the columns (rows) of the grid, of count n, whose cells meet [from, to);
\* an empty range meets no cell
CellsMeeting(from, to, n) ==
  {c \in Max(0, from \div TileSize) .. Min(n - 1, (to - 1) \div TileSize) :
     from < to /\ c * TileSize < to /\ (c + 1) * TileSize > from}

\* the cell of column (row) c meets [from, to)
CellMeets(c, from, to) ==
  from < to /\ c * TileSize < to /\ (c + 1) * TileSize > from

AfterPass == priv.map /\ ~priv.crashed /\ priv.did_pass

\* C1 as claimed: after a reconciliation pass every cell of the grid that
\* meets the visible rectangle expanded by one tile on every side holds a
\* tile that is LOADING or DONE.
C1_CoverageWithMargin ==
  AfterPass =>
    \A x \in CellsMeeting(RawLeft - TileSize, RawRight + TileSize, Columns),
       y \in CellsMeeting(RawTop - TileSize, RawBottom + TileSize, Rows) :
      \E t \in Tiles : t.x = x /\ t.y = y /\ t.state \in {"LOADING", "DONE"}

\* C1 amended: after a reconciliation pass every cell of the grid that meets
\* the visible rectangle itself holds a tile, which is LOADING, DONE or, when
\* its fetch failed, ERROR.
C1_Coverage ==
  AfterPass =>
    \A x \in CellsMeeting(RawLeft, RawRight, Columns),
       y \in CellsMeeting(RawTop, RawBottom, Rows) :
      \E t \in Tiles : t.x = x /\ t.y = y /\
                       t.state \in {"LOADING", "DONE", "ERROR"}

\* a pass over an anchored viewport that lies across four cells, one of them
\* with a tile whose fetch failed
C1_Witness ==
  /\ AfterPass
  /\ priv.anchor.x > 0
  /\ Cardinality(CellsMeeting(RawLeft, RawRight, Columns)) = 2
  /\ Cardinality(CellsMeeting(RawTop, RawBottom, Rows)) = 2
  /\ \E t \in Tiles : /\ t.state = "ERROR"
                      /\ CellMeets(t.x, RawLeft, RawRight)
                      /\ CellMeets(t.y, RawTop, RawBottom)

\* C2 as claimed: after a reconciliation pass no tile remains whose cell lies
\* fully outside the visible rectangle expanded by one tile on every side.
C2_NoTileOutsideMargin ==
  AfterPass =>
    \A t \in Tiles :
      /\ CellMeets(t.x, RawLeft - TileSize, RawRight + TileSize)
      /\ CellMeets(t.y, RawTop - TileSize, RawBottom + TileSize)

\* C2 amended: after a reconciliation pass no tile remains whose cell lies
\* fully outside the visible rectangle (its origin clamped to >= 0) extended
\* by two tiles to the right and to the bottom.
C2_NoTileOutside ==
  AfterPass =>
    \A t \in Tiles :
      /\ CellMeets(t.x, Max(RawLeft, 0),
                   Max(RawLeft, 0) + priv.viewport_size.width + 2 * TileSize)
      /\ CellMeets(t.y, Max(RawTop, 0),
                   Max(RawTop, 0) + priv.viewport_size.height + 2 * TileSize)

\* a pass that evicted tiles and kept one in the column just after the range
\* it loads
C2_Witness ==
  /\ AfterPass
  /\ priv.did_evict
  /\ \E t \in Tiles : t.x = VisibleRange(priv).x_count

\* C3: a reconciliation pass that runs right after another one, with nothing
\* changed in between, fetches no tile and evicts none.
C3_Idempotent ==
  (last.op = "set_size" /\ last.again /\ ~priv.keep_center_on_resize /\
   ~priv.crashed)
    => (priv.did_pass /\ ~priv.did_fetch /\ ~priv.did_evict)

\* set_size with the size unchanged and keep-center-on-resize off ran a pass
\* over a level with tiles, right after another pass
C3_Witness ==
  /\ last.op = "set_size" /\ last.again /\ ~priv.keep_center_on_resize
  /\ priv.did_pass
  /\ priv.zoom_level >= AnchorZoomLevel
  /\ Cardinality(Tiles) >= 4

\* C4: when a scroll makes view_update_anchor change the anchor, the origin
\* of the viewport is compensated, so that the raw visible rectangle (origin
\* + anchor) is the one the scroll asked for.
C4_AnchorInvisible ==
  (last.op = "scroll" /\ ~priv.crashed /\ priv.anchor # last.old_anchor)
    => /\ priv.origin.x + priv.anchor.x = last.raw_x
       /\ priv.origin.y + priv.anchor.y = last.raw_y
       /\ priv.viewport_size.x + priv.anchor.x = last.raw_x
       /\ priv.viewport_size.y + priv.anchor.y = last.raw_y

\* C5: the position of every tile of the current level, its pixel minus the
\* anchor, is within the range of the renderer.
InRange16(v) == -G_MAXINT16 <= v /\ v <= G_MAXINT16
C5_PositionsInRange ==
  (priv.map /\ ~priv.crashed) =>
    \A t \in Tiles :
      /\ InRange16(t.x * TileSize - priv.anchor.x)
      /\ InRange16(t.y * TileSize - priv.anchor.y)

\* C6: a go_to with a duration > 0 that nothing disturbed leaves, when its
\* timeline completes, the centre of the view exactly at the requested
\* latitude and longitude, whatever frames were delivered before.
C6_ExactArrival ==
  (last.op = "completed" /\ last.undisturbed /\ ~priv.crashed)
    => /\ priv.latitude = last.to_latitude
       /\ priv.longitude = last.to_longitude

\* C7: at most one GoToContext exists, its timeline is the only one playing,
\* and after a go_to with a duration > 0 that timeline is the one of this
\* call, not yet started on its way: no timeline of an earlier go_to is left
\* to deliver a frame or its completion.
C7_OneContext ==
  /\ Cardinality(priv.timelines) <= 1
  /\ \A t \in priv.timelines : t.id = priv.goto_context
  /\ priv.goto_context # 0 => \E t \in priv.timelines : t.id = priv.goto_context
  /\ (last.op = "go_to" /\ last.duration > 0) =>
       \E t \in priv.timelines :
         /\ priv.timelines = {t}
         /\ t.to_latitude = last.latitude /\ t.to_longitude = last.longitude
         /\ t.duration = last.duration
         /\ t.elapsed = 0
         /\ t.undisturbed

\* a second go_to with a duration > 0 was started while the first was playing
C7_Witness ==
  /\ last.op = "go_to" /\ last.duration > 0 /\ last.was_running
  /\ Cardinality(priv.timelines) = 1
  /\ priv.n_animation_completed = 1

\* C8: after center_on, go_to (with any duration), a zoom change or
\* stop_go_to is called while a go-to animation is playing, the context of
\* that animation no longer exists: no timeline started before the call is
\* left playing.
C8_PreviousDiscarded ==
  (/\ ~priv.crashed
   /\ last.op \in {"center_on", "go_to", "set_zoom_level", "stop_go_to"}
   /\ last.was_running
   /\ last.op = "set_zoom_level" => last.changed)
    => \A t \in priv.timelines : t.undisturbed

\* what stop_go_to must leave alone: the centre, the viewport, the anchor, the
\* zoom level and the tiles
ViewPart(p) ==
  <<p.latitude, p.longitude, p.origin, p.viewport_size, p.anchor,
    p.anchor_zoom_level, p.zoom_level, p.map, p.current_level, p.state>>

\* C9: stop_go_to leaves the centre, the viewport, the anchor and the tiles as
\* they were and performs no center_on; when an animation was playing it
\* discards the context and its timeline and emits one
\* animation-completed::go-to, when none was it emits nothing.
C9_StopGoTo ==
  [][last'.op = "stop_go_to" =>
       /\ ViewPart(priv') = ViewPart(priv)
       /\ priv'.goto_context = 0
       /\ priv'.timelines = {}
       /\ ~priv'.did_center_on /\ ~priv'.did_pass
       /\ priv'.n_notify_state = 0
       /\ priv'.n_animation_completed = IF last'.was_running THEN 1 ELSE 0]_vars

\* stop_go_to stopped an animation that had delivered frames
C9_Witness ==
  /\ last.op = "stop_go_to" /\ last.was_running /\ last.frames
  /\ priv.n_animation_completed = 1
  /\ priv.goto_context = 0

\* C10: go_to with duration 0, called when no animation is playing, has
\* centred the view on the requested point when it returns, and has created
\* no context, started no timeline and emitted no animation-completed::go-to.
C10_ImmediateGoTo ==
  (last.op = "go_to" /\ last.duration = 0 /\ ~last.was_running /\
   ~priv.crashed)
    => /\ priv.did_center_on
       /\ priv.origin.x + priv.anchor.x + priv.viewport_size.width \div 2 =
            champlain_map_source_get_x(priv.zoom_level, last.longitude)
       /\ priv.origin.y + priv.anchor.y + priv.viewport_size.height \div 2 =
            champlain_map_source_get_y(priv.zoom_level, last.latitude)
       /\ priv.goto_context = 0
       /\ priv.timelines = {}
       /\ priv.n_animation_completed = 0

\* go_to with duration 0 ran on an idle view and moved it
C10_Witness ==
  /\ last.op = "go_to" /\ last.duration = 0 /\ ~last.was_running
  /\ priv.did_center_on /\ priv.did_pass
  /\ priv.zoom_level >= AnchorZoomLevel
  /\ priv.origin.x + priv.anchor.x =
       champlain_map_source_get_x(priv.zoom_level, last.longitude)
\* C11: champlain_view_go_to animates for 500 * zoom_level / 2 ms, with the
\* zoom level current at the call: at zoom level 0 the call is an immediate
\* center_on that leaves no animation, at any other zoom level the new
\* go-to has that duration and leads to the requested coordinates; the
\* duration never decreases from a zoom level of the view's range to the next.
C11_DefaultDuration ==
  /\ \A z \in priv.min_zoom_level .. (priv.max_zoom_level - 1) :
       DefaultDuration(z) <= DefaultDuration(z + 1)
  /\ (last.op = "go_to_default" /\ ~priv.crashed) =>
       IF last.zoom_level = 0
       THEN /\ priv.goto_context = 0
            /\ priv.did_center_on
            /\ priv.timelines = {}
            /\ RawLeft + priv.viewport_size.width \div 2 =
                 champlain_map_source_get_x(priv.zoom_level, last.longitude)
       ELSE /\ ~priv.did_center_on
            /\ \E t \in priv.timelines :
                 /\ t.id = priv.goto_context
                 /\ 2 * t.duration = 500 * last.zoom_level
                 /\ t.elapsed = 0
                 /\ t.to_latitude = last.latitude
                 /\ t.to_longitude = last.longitude

\* a default go-to started at zoom level 8 replaces a running one and plays
\* for 2000 ms
C11_Witness ==
  /\ last.op = "go_to_default" /\ last.zoom_level = 8 /\ last.was_running
  /\ \E t \in priv.timelines : t.id = priv.goto_context /\ t.duration = 2000

ZoomRequests == {"set_zoom_level", "zoom_in", "zoom_out", "scroll_event"}

\* C12: a zoom-change request (set_zoom_level, zoom_in, zoom_out, scroll
\* event) for the current level, a level outside [min_zoom_level,
\* max_zoom_level] or a level the map refuses changes nothing: zoom level,
\* level and tiles, anchor, origin, centre, the go-to context and the playing
\* timelines stay as they were, no pass runs and nothing is notified.
C12_RefusedZoomIsNoOp ==
  [][(last'.op \in ZoomRequests /\ last'.refused) =>
       /\ ViewPart(priv') = ViewPart(priv)
       /\ priv'.goto_context = priv.goto_context
       /\ priv'.timelines = Disturb(priv).timelines
       /\ ~priv'.crashed
       /\ ~priv'.did_center_on /\ ~priv'.did_pass /\ ~priv'.did_fetch
       /\ priv'.n_notify_zoom_level = 0
       /\ priv'.n_notify_state = 0
       /\ priv'.n_animation_completed = 0]_vars

\* zoom_in at the highest level of the range was turned down while a go-to
\* was playing
C12_Witness ==
  /\ last.op = "zoom_in" /\ last.refused
  /\ last.was_running /\ priv.goto_context # 0
  /\ priv.zoom_level = priv.max_zoom_level

Abs(v) == IF v < 0 THEN -v ELSE v

\* C13 as claimed, granting the centre one pixel of the coarser level: after
\* a set_zoom_level(z) that is not refused the zoom level is z, the level is
\* the one of z with freshly loaded tiles only, the anchor is the one of z,
\* and the centre displayed is the centre displayed before the call.
C13_DisplayedCentreKept ==
  [][(last'.op = "set_zoom_level" /\ ~last'.refused /\ priv.map) =>
       /\ ~priv'.crashed
       /\ priv'.zoom_level = last'.level
       /\ priv'.current_level.level = last'.level
       /\ \A t \in priv'.current_level.tiles : t.state = "LOADING"
       /\ priv'.anchor_zoom_level = last'.level
       /\ Abs(viewport_get_current_longitude(priv') -
              viewport_get_current_longitude(priv))
            < LonPerPixel(Min(priv.zoom_level, priv'.zoom_level))
       /\ Abs(viewport_get_current_latitude(priv') -
              viewport_get_current_latitude(priv))
            < LatPerPixel(Min(priv.zoom_level, priv'.zoom_level))]_vars

\* What does hold of C13: after a set_zoom_level(z) that is not refused the
\* zoom level is z, the level is the one of z with freshly loaded tiles only, the
\* anchor is the one of z, one zoom-level notification was emitted, and the
\* view is centred on the pixel of level z that holds the centre stored
\* before the call; the centre stored after it is less than one pixel of
\* level z away from the one stored before.
C13_StoredCentreKept ==
  [][(last'.op = "set_zoom_level" /\ ~last'.refused /\ priv.map) =>
       /\ ~priv'.crashed
       /\ priv'.zoom_level = last'.level
       /\ priv'.current_level.level = last'.level
       /\ \A t \in priv'.current_level.tiles : t.state = "LOADING"
       /\ priv'.anchor_zoom_level = last'.level
       /\ priv'.n_notify_zoom_level = 1
       /\ priv'.anchor.x + priv'.viewport_size.x +
            priv'.viewport_size.width \div 2 =
              champlain_map_source_get_x(last'.level, priv.longitude)
       /\ priv'.anchor.y + priv'.viewport_size.y +
            priv'.viewport_size.height \div 2 =
              champlain_map_source_get_y(last'.level, priv.latitude)
       /\ Abs(priv'.longitude - priv.longitude) < LonPerPixel(last'.level)
       /\ Abs(priv'.latitude - priv.latitude) < LatPerPixel(last'.level)]_vars

\* the coordinates under the point (x, y) of the screen
LongitudeAt(p, x) ==
  champlain_map_source_get_longitude(p.zoom_level,
    p.viewport_size.x + x + p.anchor.x)
LatitudeAt(p, y) ==
  champlain_map_source_get_latitude(p.zoom_level,
    p.viewport_size.y + y + p.anchor.y)

\* C14: after a scroll event has changed the zoom level by one, the
\* coordinates under the pointer are the ones that were under it before the
\* event, to less than one pixel of the new level.
C14_PointKept ==
  (last.op = "scroll_event" /\ ~last.refused /\ ~priv.crashed) =>
    /\ last.changed
    /\ Abs(LongitudeAt(priv, last.x) - last.longitude)
         < LonPerPixel(priv.zoom_level)
    /\ Abs(LatitudeAt(priv, last.y) - last.latitude)
         < LatPerPixel(priv.zoom_level)

\* the wheel was turned down at level 8, over a point away from the middle
\* of the viewport, and the coordinates under it lie between two pixels of
\* level 7
C14_Witness ==
  /\ last.op = "scroll_event" /\ last.changed /\ ~priv.crashed
  /\ priv.zoom_level = 7
  /\ priv.viewport_size.width > 0
  /\ last.x # priv.viewport_size.width \div 2
  /\ LongitudeAt(priv, last.x) # last.longitude

\* what the last ensure_visible was called with
LastBox == SortedBox(last.box[1], last.box[2], last.box[3], last.box[4])
LastSize == [viewport_size |-> last.viewport_size]
LastLevels == last.min_zoom_level .. last.zoom_level

\* the box with a tenth added to its sides fits the viewport at a zoom level
PaddedBoxFits(p, zoom_level, box) ==
  LET min_x == champlain_map_source_get_x(zoom_level, box.min_lon)
      min_y == champlain_map_source_get_y(zoom_level, box.min_lat)
      max_x == champlain_map_source_get_x(zoom_level, box.max_lon)
      max_y == champlain_map_source_get_y(zoom_level, box.max_lat)
  IN /\ 11 * (min_y - max_y) <= 10 * p.viewport_size.height
     /\ 11 * (max_x - min_x) <= 10 * p.viewport_size.width

MaxOf(S) == CHOOSE z \in S : \A y \in S : y <= z

\* the view is centred on the pixel of a point, or is on its way there
MovesTo(point) ==
  IF \E t \in priv.timelines : t.undisturbed
  THEN \E t \in priv.timelines :
         /\ t.id = priv.goto_context
         /\ t.to_latitude = point.latitude
         /\ t.to_longitude = point.longitude
  ELSE /\ RawLeft + priv.viewport_size.width \div 2 =
            champlain_map_source_get_x(priv.zoom_level, point.longitude)
       /\ RawTop + priv.viewport_size.height \div 2 =
            champlain_map_source_get_y(priv.zoom_level, point.latitude)

\* C15 as claimed: ensure_visible never ends above the zoom level it started
\* at, and when the box with a tenth added to its sides fits the viewport at
\* a level between min_zoom_level and the level it started at, it ends at
\* the highest such level.
C15_TightestPaddedZoom ==
  (last.op = "ensure_visible" /\ ~priv.crashed) =>
    LET fitting == {z \in LastLevels : PaddedBoxFits(LastSize, z, LastBox)}
    IN /\ priv.zoom_level <= last.zoom_level
       /\ fitting # {} => priv.zoom_level = MaxOf(fitting)

\* C16 as claimed: when ensure_visible has found a good size it centres the
\* view on the middle of the box, or starts a go-to that leads there,
\* whatever the order of the corners.
C16_Midpoint ==
  (last.op = "ensure_visible" /\ last.good_size /\ ~priv.crashed) =>
    MovesTo(ensure_visible_Midpoint(LastBox, TRUE))

\* C17 as claimed: the loop of ensure_visible takes at most (zoom level at
\* the call - min_zoom_level + 1) iterations, and when the box fits the
\* viewport at no level between min_zoom_level and the level at the call,
\* the view ends at min_zoom_level, centred on (0, 0) or on its way there.
C17_Fallback ==
  (last.op = "ensure_visible" /\ ~priv.crashed) =>
    /\ last.steps <= last.zoom_level - last.min_zoom_level + 1
    /\ (\A z \in LastLevels : ~BoxFits(LastSize, z, LastBox)) =>
         /\ priv.zoom_level = last.min_zoom_level
         /\ MovesTo([latitude |-> 0, longitude |-> 0])

\* What does hold of the fallback: C17_Fallback for calls made at a zoom
\* level that is not below min_zoom_level.
C17_FallbackInRange ==
  (last.op = "ensure_visible" /\ last.zoom_level >= last.min_zoom_level) =>
    C17_Fallback

\* C18 as claimed, granting set_size the center_on it calls: on a view
\* without a map set_zoom_level, zoom_in, zoom_out, a scroll event and
\* set_size do not fail, and all but set_size leave the view without a map.
C18_NoMapNoOp ==
  [][(~priv.map /\ last'.op \in ZoomRequests \cup {"set_size"}) =>
       /\ ~priv'.crashed
       /\ last'.op # "set_size" =>
            /\ ~priv'.map
            /\ priv'.current_level = priv.current_level]_vars

\* C19 as claimed: center_on with a latitude outside [-90, 90] or a
\* longitude outside [-180, 180] leaves the stored centre, the viewport, the
\* anchor and the tiles as they were.
C19_OffMapRejected ==
  [][last'.op = "center_on_off_map" =>
       ViewPart(priv') = ViewPart(priv)]_vars

\* the state of the view that its tiles call for
Aggregate(tiles) ==
  IF \E t \in tiles : t.state = "LOADING" THEN "LOADING" ELSE "DONE"

\* C20: the failure of a tile's fetch makes that one LOADING tile an ERROR
\* tile and changes no other tile; no pass runs, nothing is fetched or
\* evicted and nothing fails; the centre, the viewport, the anchor and the
\* zoom level stay as they were; and the state of the view is DONE when no
\* tile is LOADING any more, LOADING otherwise.  A fetch that succeeds
\* afterwards leaves the ERROR tiles alone and does the same to the state.
C20_FetchFailureIsLocal ==
  [][(last'.op \in {"tile_error", "tile_done"}) =>
       LET tiles == priv.current_level.tiles
           after == priv'.current_level.tiles
           ended == IF last'.op = "tile_error" THEN "ERROR" ELSE "DONE"
       IN /\ \E old \in tiles \ after, new \in after \ tiles :
               /\ old.state = "LOADING" /\ new.state = ended
               /\ new.x = old.x /\ new.y = old.y
               /\ after \ {new} = tiles \ {old}
          /\ ~priv'.crashed
          /\ ~priv'.did_pass /\ ~priv'.did_fetch /\ ~priv'.did_evict
          /\ ~priv'.did_center_on
          /\ <<priv'.latitude, priv'.longitude, priv'.origin,
               priv'.viewport_size, priv'.anchor, priv'.zoom_level>> =
             <<priv.latitude, priv.longitude, priv.origin,
               priv.viewport_size, priv.anchor, priv.zoom_level>>
          /\ priv'.state = Aggregate(after)]_vars

\* the only tile that was still LOADING has failed: the view is DONE with
\* an ERROR tile
C20_Witness ==
  /\ last.op = "tile_error" /\ ~priv.crashed
  /\ priv.state = "DONE"
  /\ \E t \in Tiles : t.state = "ERROR"

\* C21: whenever a handler has returned on a view with a map, the state of
\* the view is LOADING if a tile of the current level is LOADING and DONE
\* otherwise (ERROR tiles do not count), and the host was notified of the
\* state only when it changed: once for the end of a fetch that changed it,
\* not at all for one that did not, and for any handler an odd number of
\* times exactly when the state it leaves differs from the one it found.
C21_AggregateState ==
  [][(priv'.map /\ ~priv'.crashed) =>
       /\ priv'.state = Aggregate(priv'.current_level.tiles)
       /\ priv'.n_notify_state % 2 =
            (IF priv'.state # priv.state THEN 1 ELSE 0)
       /\ last'.op \in {"tile_done", "tile_error"} =>
            priv'.n_notify_state <= 1]_vars

\* a fetch has failed while other tiles are LOADING: the state was computed
\* again, did not change, and nothing was notified
C21_Witness ==
  /\ last.op = "tile_error" /\ ~priv.crashed
  /\ priv.state = "LOADING" /\ priv.n_notify_state = 0
  /\ \E t \in Tiles : t.state = "ERROR"
  /\ \E t \in Tiles : t.state = "LOADING"

\* C22 as claimed, granting the centre one pixel: set_size with
\* keep-center-on-resize on leaves the latitude and longitude of the view as
\* they were; with it off it runs a pass for the new size and neither
\* centres the view nor moves the viewport, the anchor or the centre.
C22_ResizeKeepsCentre ==
  [][last'.op = "set_size" =>
       /\ ~priv'.crashed
       /\ priv.keep_center_on_resize =>
            /\ Abs(priv'.longitude - priv.longitude)
                 < LonPerPixel(priv.zoom_level)
            /\ Abs(priv'.latitude - priv.latitude)
                 < LatPerPixel(priv.zoom_level)
       /\ ~priv.keep_center_on_resize =>
            /\ priv'.did_pass /\ ~priv'.did_center_on
            /\ <<priv'.latitude, priv'.longitude, priv'.origin,
                 priv'.anchor, priv'.zoom_level>> =
               <<priv.latitude, priv.longitude, priv.origin,
                 priv.anchor, priv.zoom_level>>]_vars

\* What does hold of C22: the same on a view that has its map.
C22_ResizeKeepsCentreWithMap ==
  [][(last'.op = "set_size" /\ priv.map) =>
       /\ ~priv'.crashed
       /\ priv.keep_center_on_resize =>
            /\ Abs(priv'.longitude - priv.longitude)
                 < LonPerPixel(priv.zoom_level)
            /\ Abs(priv'.latitude - priv.latitude)
                 < LatPerPixel(priv.zoom_level)
       /\ ~priv.keep_center_on_resize =>
            /\ priv'.did_pass /\ ~priv'.did_center_on
            /\ <<priv'.latitude, priv'.longitude, priv'.origin,
                 priv'.anchor, priv'.zoom_level>> =
               <<priv.latitude, priv.longitude, priv.origin,
                 priv.anchor, priv.zoom_level>>]_vars

\* C23: after any sequence of zoom requests and bound changes the zoom
\* level lies between min_zoom_level and max_zoom_level, and both bounds lie
\* within the map source's range.
C23_ZoomWithinBounds ==
  ~priv.crashed =>
    /\ priv.min_zoom_level <= priv.zoom_level
    /\ priv.zoom_level <= priv.max_zoom_level
    /\ champlain_map_source_get_min_zoom_level(priv.map_source) <=
       priv.min_zoom_level
    /\ priv.max_zoom_level <=
       champlain_map_source_get_max_zoom_level(priv.map_source)

\* What does hold of C23: the two bounds stay ordered and within the
\* source's range, whatever is requested.
C23_BoundsOrdered ==
  /\ priv.min_zoom_level <= priv.max_zoom_level
  /\ champlain_map_source_get_min_zoom_level(priv.map_source) <=
       priv.min_zoom_level
  /\ priv.max_zoom_level <=
       champlain_map_source_get_max_zoom_level(priv.map_source)

\* C24: below the anchoring threshold the anchor is (0, 0) and valid for the
\* current zoom level after every completed center_on, scroll or zoom
\* change.
C24_NoAnchorBelowThreshold ==
  (/\ ~priv.crashed
   /\ priv.zoom_level < AnchorZoomLevel
   /\ last.op \in {"center_on", "scroll", "set_zoom_level", "zoom_in",
                   "zoom_out", "scroll_event"}) =>
    /\ priv.anchor = [x |-> 0, y |-> 0]
    /\ priv.anchor_zoom_level = priv.zoom_level

\* a zoom-out from the threshold level, where the view was anchored, to the
\* level below it
C24_Witness ==
  /\ ~priv.crashed
  /\ last.op = "zoom_out"
  /\ last.changed
  /\ priv.zoom_level = AnchorZoomLevel - 1
  /\ priv.anchor = [x |-> 0, y |-> 0]
  /\ priv.anchor_zoom_level = priv.zoom_level

\* the pixel width and height of the current level's grid
GridWidth ==
  champlain_zoom_level_get_width(priv.current_level) *
    champlain_map_source_get_tile_size
GridHeight ==
  champlain_zoom_level_get_height(priv.current_level) *
    champlain_map_source_get_tile_size

\* the last call of view_update_anchor recomputed the anchor
Recomputed ==
  /\ last.op = "update_anchor"
  /\ priv.zoom_level >= AnchorZoomLevel
  /\ \/ last.anchor_zoom_level # priv.zoom_level
     \/ last.x - last.anchor.x + priv.viewport_size.width >= G_MAXINT16
     \/ last.y - last.anchor.y + priv.viewport_size.height >= G_MAXINT16

\* C25: a recomputed anchor is, on each axis, the centre less half the bound,
\* clamped between 0 and that axis's grid extent less half the bound: the
\* grid's width for x, its height for y.
C25_ClampedPerAxis ==
  Recomputed =>
    /\ priv.anchor.x =
         Clamp(last.x - G_MAXINT16 \div 2, 0, GridWidth - G_MAXINT16 \div 2)
    /\ priv.anchor.y =
         Clamp(last.y - G_MAXINT16 \div 2, 0, GridHeight - G_MAXINT16 \div 2)

\* What does hold of C25: both axes are clamped with the grid's width.
C25_ClampedByWidth ==
  Recomputed =>
    /\ priv.anchor.x =
         Clamp(last.x - G_MAXINT16 \div 2, 0, GridWidth - G_MAXINT16 \div 2)
    /\ priv.anchor.y =
         Clamp(last.y - G_MAXINT16 \div 2, 0, GridWidth - G_MAXINT16 \div 2)

\* C26: the anchor view_update_anchor computes has both components at least 0
\* and at most the grid's pixel extent, whatever the grid's size.
C26_AnchorWithinGrid ==
  last.op = "update_anchor" =>
    /\ 0 <= priv.anchor.x /\ priv.anchor.x <= GridWidth
    /\ 0 <= priv.anchor.y /\ priv.anchor.y <= GridHeight

\* What does hold of C26: on a square grid at least half the bound long.
C26_AnchorWithinLargeSquareGrid ==
  (/\ last.op = "update_anchor"
   /\ GridWidth = GridHeight
   /\ GridWidth >= G_MAXINT16 \div 2) =>
    /\ 0 <= priv.anchor.x /\ priv.anchor.x <= GridWidth
    /\ 0 <= priv.anchor.y /\ priv.anchor.y <= GridHeight

\* C27: view_update_anchor leaves the anchor as it was when the zoom level is
\* the one the anchor was computed for and on both axes centre - anchor +
\* viewport extent is below the bound; a second call with the same centre
\* never changes it.
C27_AnchorKept ==
  last.op = "update_anchor" =>
    /\ (/\ last.anchor_zoom_level = priv.zoom_level
        /\ last.x - last.anchor.x + priv.viewport_size.width < G_MAXINT16
        /\ last.y - last.anchor.y + priv.viewport_size.height < G_MAXINT16) =>
         priv.anchor = last.anchor
    /\ last.again => priv.anchor = last.anchor

\* an anchored view whose centre moved, within the bound, away from the
\* centre its anchor was computed from
C27_Witness ==
  /\ last.op = "update_anchor"
  /\ ~last.again
  /\ priv.zoom_level >= AnchorZoomLevel
  /\ last.anchor_zoom_level = priv.zoom_level
  /\ last.x - last.anchor.x + priv.viewport_size.width < G_MAXINT16
  /\ last.y - last.anchor.y + priv.viewport_size.height < G_MAXINT16
  /\ priv.anchor.x # Clamp(last.x - G_MAXINT16 \div 2, 0,
                           GridWidth - G_MAXINT16 \div 2)
  /\ priv.anchor = last.anchor

\* C28: after every completed handler every DONE tile of the current level
\* is positioned at its pixel minus the current anchor.
C28_DoneTilesPositioned ==
  (priv.map /\ ~priv.crashed) =>
    \A t \in priv.current_level.tiles :
      t.state = "DONE" =>
        /\ t.px = t.x * champlain_map_source_get_tile_size - priv.anchor.x
        /\ t.py = t.y * champlain_map_source_get_tile_size - priv.anchor.y

\* the projection, at the current zoom level, of the centre the last
\* center_on was given
LastX == champlain_map_source_get_x(priv.zoom_level, last.longitude)
LastY == champlain_map_source_get_y(priv.zoom_level, last.latitude)

\* C29: after center_on(lat, lon) the viewport origin is the projection of
\* (lon, lat) less the anchor and half the viewport, and the centre the view
\* reports is (lat, lon).
C29_CenterOn ==
  (last.op = "center_on" /\ ~priv.crashed) =>
    /\ priv.origin.x = LastX - priv.anchor.x - priv.viewport_size.width \div 2
    /\ priv.origin.y = LastY - priv.anchor.y - priv.viewport_size.height \div 2
    /\ priv.latitude = last.latitude
    /\ priv.longitude = last.longitude

\* What does hold of C29: the origin is as claimed, and the centre reported
\* is the one of the pixel the projection was truncated to.
C29_CenterOnPixel ==
  (last.op = "center_on" /\ ~priv.crashed) =>
    /\ priv.origin.x = LastX - priv.anchor.x - priv.viewport_size.width \div 2
    /\ priv.origin.y = LastY - priv.anchor.y - priv.viewport_size.height \div 2
    /\ champlain_map_source_get_x(priv.zoom_level, priv.longitude) = LastX
    /\ champlain_map_source_get_y(priv.zoom_level, priv.latitude) = LastY

\* the cells of a level that hold a tile
CellsOf(level) == {<<t.x, t.y>> : t \in level.tiles}

\* the cells that hold a tile after the step and held none before it
NewCells ==
  IF priv.map /\ priv.current_level.level = priv'.current_level.level
  THEN CellsOf(priv'.current_level) \ CellsOf(priv.current_level)
  ELSE CellsOf(priv'.current_level)

\* C30: the level never holds two tiles of the same cell, and a handler
\* fetches exactly the tiles of the cells that held none before it: a tile
\* that is in the level, its fetch in flight or ended, is not fetched again.
C30_FetchedOnce ==
  [][(priv'.map /\ ~priv'.crashed) =>
       /\ \A t1, t2 \in priv'.current_level.tiles :
            (t1.x = t2.x /\ t1.y = t2.y) => t1 = t2
       /\ priv'.n_fetch = Cardinality(NewCells)]_vars

\* a pass that fetched tiles while a tile it kept was still being fetched
C30_Witness ==
  /\ priv.map /\ ~priv.crashed
  /\ last.op \in {"center_on", "scroll"}
  /\ priv.did_pass /\ priv.did_evict
  /\ priv.n_fetch > 0
  /\ priv.n_fetch <
       Cardinality({t \in priv.current_level.tiles : t.state = "LOADING"})

\* C31: at most one pass of view_load_visible_tiles runs at a time: no
\* handler starts a pass while another one is running, and none is running
\* when a handler has returned.
C31_OnePassAtATime ==
  /\ priv.max_pass_depth <= 1
  /\ priv.pass_depth = 0

\* center_on changed the viewport origin, whose handler ran a pass, and then
\* ran its own: two passes, one after the other
C31_Witness ==
  /\ ~priv.crashed
  /\ last.op = "center_on"
  /\ priv.n_pass = 2
  /\ priv.max_pass_depth = 1
  /\ priv.did_fetch

\* C32: every tile of the current level has the level's zoom level and a
\* cell of the level's grid: 0 <= x < columns and 0 <= y < rows, wherever the
\* viewport is.
C32_TilesOnGrid ==
  (priv.map /\ ~priv.crashed) =>
    \A t \in Tiles :
      /\ t.zoom_level = priv.current_level.level
      /\ 0 <= t.x /\ t.x < Columns
      /\ 0 <= t.y /\ t.y < Rows

\* a pass over a viewport that reaches beyond the grid's right edge, or
\* starts before its left edge, which gave the column at that edge a tile
C32_Witness ==
  /\ AfterPass
  /\ priv.did_fetch
  /\ \/ /\ RawRight > Columns * TileSize
        /\ \E t \in Tiles : t.x = Columns - 1
     \/ /\ RawLeft < 0
        /\ \E t \in Tiles : t.x = 0
  /\ \A t \in Tiles : t.zoom_level = priv.zoom_level

\* the last step was set_map_source with a source other than the view's
SourceChanged == last'.op = "set_map_source" /\ last'.source # priv.map_source

\* C33: set_map_source with the view's own source changes nothing; with
\* another source the bounds become that source's, and on a view with a map
\* the zoom level is cut to them (notified only when it changed), the level
\* is a new one of that zoom level, holding only tiles fetched by the call,
\* and the centre of the view is the one it had.
C33_SetMapSource ==
  [][/\ (last'.op = "set_map_source" /\ last'.source = priv.map_source) =>
          priv' = Start(priv)
     /\ (SourceChanged /\ ~priv'.crashed) =>
          /\ priv'.map_source = last'.source
          /\ priv'.min_zoom_level =
               champlain_map_source_get_min_zoom_level(last'.source)
          /\ priv'.max_zoom_level =
               champlain_map_source_get_max_zoom_level(last'.source)
          /\ priv.map =>
               /\ priv'.zoom_level =
                    Clamp(priv.zoom_level, priv'.min_zoom_level,
                          priv'.max_zoom_level)
               /\ priv'.n_notify_zoom_level =
                    (IF priv'.zoom_level # priv.zoom_level THEN 1 ELSE 0)
               /\ priv'.current_level.level = priv'.zoom_level
               /\ \A t \in priv'.current_level.tiles : t.state = "LOADING"
               /\ priv'.latitude = priv.latitude
               /\ priv'.longitude = priv.longitude]_vars

\* What does hold of C33: everything but the centre, which stays within a
\* pixel of the new level.
C33_SetMapSourceWithinPixel ==
  [][/\ (last'.op = "set_map_source" /\ last'.source = priv.map_source) =>
          priv' = Start(priv)
     /\ (SourceChanged /\ ~priv'.crashed) =>
          /\ priv'.map_source = last'.source
          /\ priv'.min_zoom_level =
               champlain_map_source_get_min_zoom_level(last'.source)
          /\ priv'.max_zoom_level =
               champlain_map_source_get_max_zoom_level(last'.source)
          /\ priv.map =>
               /\ priv'.zoom_level =
                    Clamp(priv.zoom_level, priv'.min_zoom_level,
                          priv'.max_zoom_level)
               /\ priv'.n_notify_zoom_level =
                    (IF priv'.zoom_level # priv.zoom_level THEN 1 ELSE 0)
               /\ priv'.current_level.level = priv'.zoom_level
               /\ \A t \in priv'.current_level.tiles : t.state = "LOADING"
               /\ Abs(priv'.latitude - priv.latitude) <
                    LatPerPixel(priv'.zoom_level)
               /\ Abs(priv'.longitude - priv.longitude) <
                    LonPerPixel(priv'.zoom_level)]_vars

\* C34: a pass takes the actor of every tile it evicts, whatever the tile's
\* state, out of the group of the level, so that every actor in the group
\* is the actor of a tile the level holds.
C34_NoOrphanActor ==
  AfterPass => ~priv.did_orphan

\* What does hold of C34: a pass that evicts only tiles that are DONE leaves
\* no actor behind.
C34_NoOrphanOfDoneTiles ==
  [][(priv'.map /\ ~priv'.crashed /\ priv'.did_orphan /\ priv.map) =>
       \E t \in priv.current_level.tiles : t.state # "DONE"]_vars

\* the step started a go-to animation: a playing timeline that no handler
\* has disturbed, after a handler other than a frame
GoToStarted ==
  /\ last'.op \notin {"new_frame", "completed"}
  /\ \E t \in priv'.timelines : t.undisturbed

\* the animations the step ended: those playing before it that play no more
GoTosEnded ==
  Cardinality(priv.timelines) - Cardinality(priv'.timelines) +
    (IF GoToStarted THEN 1 ELSE 0)

\* C35: every go-to animation ends with exactly one animation-completed
\* notification: a step notifies once for each animation it ends, and an
\* animation that is playing is the one of the view's GoToContext.
C35_OneNotification ==
  [][~priv'.crashed =>
       /\ priv'.n_animation_completed = GoTosEnded
       /\ priv'.timelines # {} =>
            /\ priv'.goto_context # 0
            /\ \A t \in priv'.timelines : t.id = priv'.goto_context]_vars

\* a go_to that superseded a running animation, which was notified once
C35_Witness ==
  /\ ~priv.crashed
  /\ last.op = "go_to"
  /\ last.duration > 0
  /\ last.was_running
  /\ priv.n_animation_completed = 1
  /\ priv.goto_context # 0

\* a view disposed while its animation was running, which was notified once
C35_WitnessDispose ==
  /\ last.op = "dispose"
  /\ last.was_running
  /\ priv.n_animation_completed = 1
  /\ priv.timelines = {}

\* C36: when animation-completed is emitted the view has no GoToContext any
\* more, so a handler that calls stop_go_to finds nothing to stop: the call
\* does not fail and the ended animation is notified once.
C36_ContextGoneAtNotify ==
  /\ priv.n_animation_completed > 0 => priv.context_at_notify = 0
  /\ last.op = "stop_go_to_reentered" =>
       ~priv.crashed /\ priv.n_animation_completed <= 1

\* What does hold of C36: when a handler has returned the view has no
\* context left, unless the handler started a go-to.
C36_ContextGoneAfterwards ==
  (~priv.crashed /\
   last.op \in {"stop_go_to", "stop_go_to_reentered", "completed"}) =>
    priv.goto_context = 0 /\ priv.timelines = {}

\* C37: the end of the fetch of a tile that is no longer in the current
\* level adds no tile to the level and changes none of its tiles, and the
\* state of the view stays the aggregate of the level's tiles; nothing is
\* notified.
C37_StaleFetchIsInert ==
  [][(last'.op = "stale_tile_done" /\ ~priv'.crashed) =>
       /\ priv'.current_level = priv.current_level
       /\ priv'.state = Aggregate(priv'.current_level.tiles)
       /\ priv'.state = priv.state
       /\ priv'.n_notify_state = 0]_vars

\* the fetch of an evicted tile ended while the level held, in the same
\* cell, a tile fetched later that is still loading
C37_Witness ==
  /\ ~priv.crashed
  /\ last.op = "stale_tile_done"
  /\ priv.state = "LOADING"
  /\ \E t \in Tiles : /\ t.state = "LOADING"
                       /\ t.x = last.x
                       /\ t.y = last.y
                       /\ t.zoom_level = last.zoom_level

\* C38: once the host sends no further event, and every fetch in flight
\* ends, the state of the view becomes DONE and stays DONE; the host is
\* notified of the state when it becomes DONE.
C38_EventuallyDone ==
  /\ [](used.quiet => <>[](priv.state = "DONE"))
  /\ []((used.quiet /\ priv.state = "LOADING") =>
          <>(priv.state = "DONE" /\ priv.n_notify_state = 1))

\* after the last event of the host, the last fetch in flight ended and the
\* host was notified that the view is DONE
C38_Witness ==
  /\ used.quiet
  /\ last.op = "fetch_end"
  /\ priv.state = "DONE"
  /\ priv.n_notify_state = 1
  /\ \E t \in Tiles : t.state = "ERROR"
  /\ \E t \in Tiles : t.state = "DONE"

\* C39: zoom_level_new returns a level with the zoom level, the row count,
\* the column count and the tile size it was given, no tile and the anchor
\* (0, 0); zoom_level_get_width is columns * tile_size and
\* zoom_level_get_height rows * tile_size; zoom_level_free releases every
\* tile of the level.
C39_ZoomLevel ==
  /\ last.op = "zoom_level_new" =>
       /\ last.zoom.level = last.zoom_level
       /\ last.zoom.row_count = last.row
       /\ last.zoom.column_count = last.column
       /\ last.zoom.tile_size = last.tile_size
       /\ last.zoom.tiles = << >>
       /\ last.zoom.anchor = [x |-> 0, y |-> 0]
  /\ last.op = "get_width" => last.result = last.column * last.tile_size
  /\ last.op = "get_height" => last.result = last.row * last.tile_size
  /\ last.op = "zoom_level_free" =>
       \A i \in 1..Len(last.zoom.tiles) :
         \E j \in 1..Len(last.freed) : last.freed[j] = last.zoom.tiles[i]

\* a level of 32768 columns of tiles of 512 pixels reported its width
C39_Witness ==
  /\ last.op = "get_width"
  /\ last.column = 32768
  /\ last.tile_size = 512
  /\ last.result = 16777216
  /\ Len(last.zoom.tiles) = MaxLevelTiles

\* a level of one row reported its height
C39_WitnessHeight ==
  /\ last.op = "get_height"
  /\ last.row = 1
  /\ last.result = last.tile_size

\* a level holding tiles was freed
C39_WitnessFree ==
  /\ last.op = "zoom_level_free"
  /\ Len(last.zoom.tiles) = MaxLevelTiles
  /\ Len(last.freed) = MaxLevelTiles

====
